---- MODULE Spec2Model ----
(***************************************************************************)
(* A model of xenosync's multi-agent coordination engine: the parallel     *)
(* strategy's task distribution, the agent manager's status machine and    *)
(* completion detector, and the project workspace coordinator's merge.     *)
(* Each part of the program is a group of variables with its own           *)
(* specification; a specification leaves the other groups untouched.       *)
(***************************************************************************)
EXTENDS Integers, Sequences, FiniteSets, TLC

VARIABLES
    \* ProjectParallelStrategy._divide_tasks: its arguments and its result
    steps, num_agents, assignments, divided,
    \* ProjectWorkspaceCoordinator: configuration, agent_projects, the file
    \* trees of the agent projects and of final-project, and the last merge
    conflict_resolution, use_git, workspace_dir, project_status, project_files,
    final_files, merge_summary, merge_results, merge_calls,
    \* AgentManager.calculate_completion_confidence: the configuration and
    \* the signals one call reads, and the dictionary it returns
    conf_input, conf_result,
    \* AgentManager.check_agent_working: the wall clock, the agent's
    \* last_message_sent, the configured grace period and the last check
    work_now, last_message_sent, message_grace_period, work_check,
    \* ProjectParallelStrategy._monitor_execution, one agent at one tick:
    \* what the tick reads and whether it puts the agent in
    \* agents_ready_for_completion
    tick_input, tick_ready,
    \* AgentManager and the running ProjectParallelStrategy: the agents'
    \* status, recovery_attempts and task timing, how far initialize_agents,
    \* shutdown and the strategy have got, and require_completion_confidence
    agent_status, recovery_attempts, task_timed, manager_phase,
    prompts_sent, strategy_phase, require_confidence, monitor_passes,
    \* XenosyncOrchestrator.run and ProjectParallelStrategy.execute: the
    \* interrupted flag, how far the run has got, the loops' elapsed ticks,
    \* the agent manager's _shutdown flag, and what execute has seen so far
    interrupted, run_phase, elapsed, finalization_elapsed, _shutdown,
    ticks_since_interrupt, enable_finalization, monitor_result, merge_result,
    finalization_spawned,
    \* ProjectParallelStrategy._send_initial_prompts and the completion
    \* branch of AgentManager._monitor_agents: each agent's tasks, the tasks
    \* whose content it was sent, its current_task_number, the task numbers
    \* the monitor confirmed, its status and its project's status, and how
    \* far the loop over the assignments has got
    task_agents, task_assignments, delivered, current_task_number,
    confirmed_tasks, task_status, task_project, prompt_cursor,
    \* AgentManager.handle_error_recovery as _monitor_agents calls it for one
    \* agent: the agent's record, the last two recovery calls, whether the
    \* last pass was a recovery call, whether recovery has given up, and the
    \* passes so far
    rec_agent, rec_call, rec_prev, call_fresh, rec_exhausted, rec_passes,
    \* Agent.completion_confidence_history of each agent, every reading the
    \* monitor has taken of it, and the wall clock
    completion_confidence_history, readings_taken, history_clock,
    \* The orchestrator's manual merge triggers: the force_merge flag, the
    \* file .xenosync_merge_now, and merge_reason of the monitor's last merge
    force_merge, merge_trigger_file, merge_reason,
    \* _run_finalization_phase after the spawn: the finalization agent's
    \* status, the seconds waited and how the phase has ended
    fin_status, fin_elapsed, fin_result,
    \* AgentManager.calculate_completion_confidence over several calls for
    \* one agent: the wall clock, the agent's record, what the last call did
    \* and completion_verification_enabled of the configuration
    detector_now, detector_agent, detection, completion_verification_enabled,
    \* calculate_completion_confidence called by the agent manager's monitor
    \* and by the strategy's loop for the same agent: the wall clock, the
    \* agent's last_verification_time, the verification messages sent (time
    \* and caller), whether each caller is suspended in the response wait,
    \* and the current_time each read before it
    verify_clock, last_verification_time, verification_messages, detector_pc,
          current_time,
    \* AgentManager after the merge: self.agents (id and status of each),
    \* the stop_regular_monitoring flag, and the position in self.agents of
    \* the agent whose iteration of the monitor loop is suspended in an await
    manager_agents, stop_regular_monitoring, monitoring_agent,
    \* The two completion loops over one agent: the clock in seconds since
    \* the strategy stamped agent_start_times, the stamp, the agent's
    \* current_task_start_time and last_completion_check, the agent's and
    \* the project's status, and the project's completed_at
    duration_clock, agent_start_times, task_start_time, last_completion_check,
    duration_agent_status, duration_project_status, completed_at,
    \* update_json_file on one path, called by several callers: whether the
    \* .lock file exists, each caller's position in its call and the
    \* attempts of its acquire, what each caller read, and the updaters
    \* applied to the file's content in order
    lock_exists, lock_pc, lock_attempts, lock_data, json_file

varsDivide == <<steps, num_agents, assignments, divided>>

varsCoord == <<conflict_resolution, use_git, workspace_dir, project_status,
               project_files, final_files, merge_summary, merge_results,
               merge_calls>>

varsConf == <<conf_input, conf_result>>

vars == <<steps, num_agents, assignments, divided,
          conflict_resolution, use_git, workspace_dir, project_status,
          project_files, final_files, merge_summary, merge_results, merge_calls,
          conf_input, conf_result,
          work_now, last_message_sent, message_grace_period, work_check,
          tick_input, tick_ready,
          agent_status, recovery_attempts, task_timed, manager_phase,
          prompts_sent, strategy_phase, require_confidence, monitor_passes,
          interrupted, run_phase, elapsed, finalization_elapsed, _shutdown,
          ticks_since_interrupt, enable_finalization, monitor_result,
          merge_result, finalization_spawned,
          task_agents, task_assignments, delivered, current_task_number,
          confirmed_tasks, task_status, task_project, prompt_cursor,
          rec_agent, rec_call, rec_prev, call_fresh, rec_exhausted, rec_passes,
          completion_confidence_history, readings_taken, history_clock,
          force_merge, merge_trigger_file, merge_reason,
          fin_status, fin_elapsed, fin_result,
          detector_now, detector_agent, detection,
          completion_verification_enabled,
          verify_clock, last_verification_time, verification_messages, detector_pc,
          current_time,
          manager_agents, stop_regular_monitoring, monitoring_agent,
          duration_clock, agent_start_times, task_start_time, last_completion_check,
    duration_agent_status, duration_project_status, completed_at,
          lock_exists, lock_pc, lock_attempts, lock_data, json_file>>

varsWork == <<work_now, last_message_sent, message_grace_period, work_check>>

varsTick == <<tick_input, tick_ready>>

varsManager == <<agent_status, recovery_attempts, task_timed, manager_phase,
                 prompts_sent, strategy_phase, require_confidence,
                 monitor_passes>>

varsRun == <<interrupted, run_phase, elapsed, finalization_elapsed, _shutdown,
             ticks_since_interrupt, enable_finalization, monitor_result,
             merge_result, finalization_spawned>>

\* The groups of the run, of task delivery and of the confidence history.
varsTasks == <<task_agents, task_assignments, delivered, current_task_number,
               confirmed_tasks, task_status, task_project, prompt_cursor>>

varsRecovery == <<rec_agent, rec_call, rec_prev, call_fresh, rec_exhausted,
                  rec_passes>>

varsHistory == <<completion_confidence_history, readings_taken, history_clock>>

\* The groups of the manual merge triggers and of the phases checked last.
varsForce == <<force_merge, merge_trigger_file, merge_reason>>

varsFinal == <<fin_status, fin_elapsed, fin_result>>

varsDetector == <<detector_now, detector_agent, detection,
                  completion_verification_enabled>>

varsVerify == <<verify_clock, last_verification_time, verification_messages, detector_pc,
          current_time>>

varsSpawn == <<manager_agents, stop_regular_monitoring, monitoring_agent>>

varsDuration == <<duration_clock, agent_start_times, task_start_time, last_completion_check,
    duration_agent_status, duration_project_status, completed_at>>

varsLock == <<lock_exists, lock_pc, lock_attempts, lock_data, json_file>>

varsThird == <<varsForce, varsFinal, varsDetector, varsVerify, varsSpawn, varsDuration,
              varsLock>>

varsLater == <<varsRun, varsTasks, varsRecovery, varsHistory, varsThird>>

\* For each group, the variables of the other groups.
notDivide == <<varsCoord, varsConf, varsWork, varsTick, varsManager, varsLater>>
notCoord == <<varsDivide, varsConf, varsWork, varsTick, varsManager, varsLater>>
notConf == <<varsDivide, varsCoord, varsWork, varsTick, varsManager, varsLater>>
notWork == <<varsDivide, varsCoord, varsConf, varsTick, varsManager, varsLater>>
notTick == <<varsDivide, varsCoord, varsConf, varsWork, varsManager, varsLater>>
\* The manager and the strategy call the coordinator.
notSession == <<varsDivide, varsConf, varsWork, varsTick, varsLater>>
varsEarlier == <<varsDivide, varsCoord, varsConf, varsWork, varsTick,
                 varsManager>>
notRun == <<varsEarlier, varsTasks, varsRecovery, varsHistory, varsThird>>
notTasks == <<varsEarlier, varsRun, varsRecovery, varsHistory, varsThird>>
notRecovery == <<varsEarlier, varsRun, varsTasks, varsHistory, varsThird>>
notHistory == <<varsEarlier, varsRun, varsTasks, varsRecovery, varsThird>>
varsSecond == <<varsRun, varsTasks, varsRecovery, varsHistory>>
\* The post-execution monitor calls the coordinator.
notForce == <<varsDivide, varsConf, varsWork, varsTick, varsManager, varsSecond,
              varsFinal, varsDetector,
              varsVerify,
              varsSpawn,
              varsDuration,
              varsLock>>
notFinal == <<varsEarlier, varsSecond, varsForce, varsDetector,
              varsVerify,
              varsSpawn,
              varsDuration,
              varsLock>>
notDetector == <<varsEarlier, varsSecond, varsForce, varsFinal,
              varsVerify,
              varsSpawn,
              varsDuration,
              varsLock>>
notLock == <<varsEarlier, varsSecond, varsForce, varsFinal, varsDetector, varsVerify, varsSpawn, varsDuration>>
notDuration == <<varsEarlier, varsSecond, varsForce, varsFinal, varsDetector, varsVerify, varsSpawn,
              varsLock>>
notSpawn == <<varsEarlier, varsSecond, varsForce, varsFinal, varsDetector, varsVerify,
              varsDuration,
              varsLock>>
notVerify == <<varsEarlier, varsSecond, varsForce, varsFinal, varsDetector,
              varsSpawn,
              varsDuration,
              varsLock>>

None == "None"

(***************************************************************************)
(* Bounds of the model.                                                    *)
(***************************************************************************)
MaxTasks == 4
MaxAgents == 3

(***************************************************************************)
(* Task distribution (project_strategies.py).                              *)
(***************************************************************************)
\* Ordered task lists: a prompt's steps, each named by its task number.
RECURSIVE Arrangements(_, _)
Arrangements(S, k) ==
    IF k = 0 THEN {<<>>}
    ELSE {<<>>} \cup { <<x>> \o rest : x \in S, rest \in Arrangements(S, k - 1) }

DistinctSeq(s) == \A i, j \in 1..Len(s) : i # j => s[i] # s[j]

StepLists == { s \in Arrangements(1..MaxTasks, MaxTasks) : DistinctSeq(s) }

\* A slip in the round-robin index: the agent is chosen by block, not by turn.
_divide_tasks_block(stepList, numAgents) ==
    LET RECURSIVE loop(_, _)
        loop(idx, acc) ==
            IF idx >= Len(stepList) THEN acc
            ELSE LET agent_id == (idx \div 2) % numAgents
                 IN loop(idx + 1,
                         [acc EXCEPT ![agent_id] = Append(@, stepList[idx + 1])])
    IN loop(0, [i \in 0..(numAgents - 1) |-> <<>>])

\* assignments = {i: [] for i in range(num_agents)}; then, for idx, step in
\* enumerate(steps): assignments[idx % num_agents].append(step)
_divide_tasks(stepList, numAgents) ==
    LET RECURSIVE loop(_, _)
        loop(idx, acc) ==
            IF idx >= Len(stepList) THEN acc
            ELSE LET agent_id == idx % numAgents
                 IN loop(idx + 1,
                         [acc EXCEPT ![agent_id] = Append(@, stepList[idx + 1])])
    IN loop(0, [i \in 0..(numAgents - 1) |-> <<>>])

IdleDivide ==
    /\ steps = <<>>
    /\ num_agents = 2
    /\ assignments = <<>>
    /\ divided = FALSE

\* execute(): assignments = self._divide_tasks(prompt.steps, num_agents)
DivideTasks ==
    /\ ~divided
    /\ assignments' = _divide_tasks(steps, num_agents)
    /\ divided' = TRUE
    /\ UNCHANGED <<steps, num_agents>>
    /\ UNCHANGED notDivide

(***************************************************************************)
(* Project workspace coordinator (project_coordination.py).                *)
(***************************************************************************)
NumAgents == 2
MaxPaths == 3
MaxMerges == 2

Agents == 0..(NumAgents - 1)

\* Relative paths of files below a project root, the version-control
\* metadata left out ('.git' not in str(file_path)). Path 1 is README.md.
Paths == 1..MaxPaths

\* The paths the agents write to when merges are followed.
MaxMergePaths == 2
MergePaths == 1..MaxMergePaths

README == 1

\* Who wrote the content a path of final-project holds: an agent id,
\* InitWriter (initialize_session's README.md) or NoFile (no such file).
InitWriter == 0 - 1
NoFile == 0 - 2

\* class ProjectStatus; "no_project" stands for an agent id that is not a
\* key of agent_projects.
ProjectStatuses == {"initialized", "in_progress", "completed", "merged", "failed"}

SetMin(S) == CHOOSE x \in S : \A y \in S : x <= y

\* The agents of a set in the order of agent_projects (agent id order).
RECURSIVE InOrder(_)
InOrder(S) ==
    IF S = {} THEN <<>>
    ELSE LET a == SetMin(S) IN <<a>> \o InOrder(S \ {a})

SeqToSet(s) == { s[i] : i \in 1..Len(s) }

\* The coordinator takes every project that is not Merged yet.
CompletedProjectsAnyUnmerged ==
    { a \in Agents : project_status[a] \in {"initialized", "in_progress", "completed"} }

\* completed_projects = [p for p in self.agent_projects.values()
\*                       if p.status == ProjectStatus.COMPLETED]
CompletedProjects ==
    { a \in Agents : project_status[a] = "completed" }

\* MERGE_SUMMARY.md: the counts and the conflict list it prints; writes
\* counts how often the file was written (0: there is no such file).
EmptySummary == [merged |-> 0, total_files |-> 0, conflicts |-> <<>>]

EmptyResults ==
    [merged_projects |-> <<>>, failed_projects |-> <<>>, total_files |-> 0,
     conflicts |-> <<>>]

\* The running state of _merge_with_files: the final-project tree (path ->
\* the writer of its content), file_sources, the paths of the conflict
\* records in the order they were appended, and the results so far.
MergeStart(final) ==
    [final |-> final,
     file_sources |-> [p \in Paths |-> <<>>],
     conflict_paths |-> <<>>,
     merged_projects |-> <<>>,
     failed_projects |-> <<>>,
     total_files |-> 0,
     files_copied |-> 0]

\* The no-conflict branch records the source but copies nothing.
MergeFileNoCopy(st, a, f, policy) ==
    IF st.final[f] # NoFile
    THEN LET src == [st.file_sources EXCEPT ![f] = Append(@, a)]
         IN IF policy = "overwrite"
            THEN [st EXCEPT !.file_sources = src,
                            !.final[f] = a,
                            !.files_copied = @ + 1]
            ELSE [st EXCEPT !.file_sources = src,
                            !.conflict_paths = Append(@, f)]
    ELSE [st EXCEPT !.file_sources[f] = <<a>>]

\* The skip policy copies over the destination as well.
MergeFileSkipOverwrites(st, a, f, policy) ==
    IF st.final[f] # NoFile
    THEN LET src == [st.file_sources EXCEPT ![f] = Append(@, a)]
         IN IF policy = "overwrite"
            THEN [st EXCEPT !.file_sources = src,
                            !.final[f] = a,
                            !.files_copied = @ + 1]
            ELSE [st EXCEPT !.file_sources = src,
                            !.final[f] = a,
                            !.conflict_paths = Append(@, f)]
    ELSE [st EXCEPT !.final[f] = a,
                    !.files_copied = @ + 1,
                    !.file_sources[f] = <<a>>]

\* The body of the loop over a project's files: one file f of agent a.
MergeFile(st, a, f, policy) ==
    IF st.final[f] # NoFile                             \* dest_path.exists()
    THEN LET src == [st.file_sources EXCEPT ![f] = Append(@, a)]
         IN IF policy = "overwrite"
            THEN [st EXCEPT !.file_sources = src,
                            !.final[f] = a,
                            !.files_copied = @ + 1]
            ELSE [st EXCEPT !.file_sources = src,
                            !.conflict_paths = Append(@, f)]
    ELSE [st EXCEPT !.final[f] = a,
                    !.files_copied = @ + 1,
                    !.file_sources[f] = <<a>>]

RECURSIVE MergeFiles(_, _, _, _)
MergeFiles(st, a, F, policy) ==
    IF F = {} THEN st
    ELSE LET f == SetMin(F)
         IN MergeFiles(MergeFile(st, a, f, policy), a, F \ {f}, policy)

\* One project of the loop. fl.failed: a copy raised after the files
\* fl.handled were handled, and the project is reported failed with what it
\* copied left in place.
MergeProject(st, a, F, fl, policy) ==
    IF ~fl.failed
    THEN LET s2 == MergeFiles([st EXCEPT !.files_copied = 0], a, F, policy)
         IN [s2 EXCEPT !.merged_projects = Append(@, a),
                       !.total_files = @ + s2.files_copied]
    ELSE LET s2 == MergeFiles([st EXCEPT !.files_copied = 0], a, fl.handled, policy)
         IN [s2 EXCEPT !.failed_projects = Append(@, a)]

RECURSIVE MergeProjects(_, _, _, _, _)
MergeProjects(st, projects, files, failure, policy) ==
    IF projects = <<>> THEN st
    ELSE LET a == Head(projects)
         IN MergeProjects(MergeProject(st, a, files[a], failure[a], policy),
                          Tail(projects), files, failure, policy)

\* results['conflicts']: each record holds the file_sources list of its
\* path itself, so it shows the agents appended after it was recorded too.
ConflictRecords(st) ==
    [i \in 1..Len(st.conflict_paths) |->
        [file |-> st.conflict_paths[i],
         agents |-> st.file_sources[st.conflict_paths[i]]]]

\* _merge_with_files(projects, final_dir): the new final-project tree, the
\* results and the content of MERGE_SUMMARY.md.
_merge_with_files(projects, final, files, failure, policy) ==
    LET st == MergeProjects(MergeStart(final), projects, files, failure, policy)
        results == [merged_projects |-> st.merged_projects,
                    failed_projects |-> st.failed_projects,
                    total_files |-> st.total_files,
                    conflicts |-> ConflictRecords(st)]
    IN [final |-> st.final,
        results |-> results,
        summary |-> [merged |-> Len(results.merged_projects),
                     total_files |-> results.total_files,
                     conflicts |-> results.conflicts]]

\* What the copies of one merge may do: for each project either no failure
\* or a failure after some of its files (not all) were handled.
NoFailure == [failed |-> FALSE, handled |-> {}]

Failures(projects) ==
    { fl \in [Agents -> [failed : BOOLEAN, handled : SUBSET Paths]] :
        \A a \in Agents :
            IF a \in projects /\ fl[a].failed
            THEN fl[a].handled \subseteq project_files[a]
                 /\ fl[a].handled # project_files[a]
            ELSE fl[a] = NoFailure }

IdleCoord ==
    /\ conflict_resolution = "skip"
    /\ use_git = TRUE
    /\ workspace_dir = None
    /\ project_status = [a \in Agents |-> "no_project"]
    /\ project_files = [a \in Agents |-> {}]
    /\ final_files = [p \in Paths |-> NoFile]
    /\ merge_summary = [writes |-> 0, content |-> EmptySummary]
    /\ merge_results = EmptyResults
    /\ merge_calls = 0

\* ProjectWorkspaceCoordinator(config): nothing on disk yet.
InitCoord ==
    /\ conflict_resolution \in {"skip", "overwrite"}
    /\ use_git \in BOOLEAN
    /\ workspace_dir = None
    /\ project_status = [a \in Agents |-> "no_project"]
    /\ project_files = [a \in Agents |-> {}]
    /\ final_files = [p \in Paths |-> NoFile]
    /\ merge_summary = [writes |-> 0, content |-> EmptySummary]
    /\ merge_results = EmptyResults
    /\ merge_calls = 0

\* initialize_session: creates final-project and, with git, its README.md
\* (git_ok = FALSE: a git command failed before the README was written).
initialize_session(git_ok) ==
    /\ workspace_dir = None
    /\ workspace_dir' = "workspace"
    /\ final_files' = IF use_git /\ git_ok
                      THEN [final_files EXCEPT ![README] = InitWriter]
                      ELSE final_files
    /\ UNCHANGED <<conflict_resolution, use_git, project_status, project_files,
                   merge_summary, merge_results, merge_calls>>
    /\ UNCHANGED notCoord

\* create_agent_workspace: raises without a workspace; agents are created in
\* id order (initialize_agents).
create_agent_workspace(a, git_ok) ==
    /\ workspace_dir # None
    /\ project_status[a] = "no_project"
    /\ \A b \in Agents : b < a => project_status[b] # "no_project"
    /\ project_files' = IF use_git /\ git_ok
                        THEN [project_files EXCEPT ![a] = @ \cup {README}]
                        ELSE project_files
    /\ project_status' = [project_status EXCEPT ![a] = "initialized"]
    /\ UNCHANGED <<conflict_resolution, use_git, workspace_dir, final_files,
                   merge_summary, merge_results, merge_calls>>
    /\ UNCHANGED notCoord

\* The agent process writes a file in its own project directory.
AgentWritesFile(a, p) ==
    /\ project_status[a] # "no_project"
    /\ merge_calls < MaxMerges
    /\ p \notin project_files[a]
    /\ project_files' = [project_files EXCEPT ![a] = @ \cup {p}]
    /\ UNCHANGED <<conflict_resolution, use_git, workspace_dir, project_status,
                   final_files, merge_summary, merge_results, merge_calls>>
    /\ UNCHANGED notCoord

\* track_agent_progress without the test `project.status != COMPLETED`.
TrackedStatusOverridesCompleted(a, more_commits) ==
    IF project_files[a] # {} \/ more_commits
    THEN "in_progress"
    ELSE project_status[a]

\* track_agent_progress: the status it leaves (more_commits: the repository
\* holds more than the initial commit).
TrackedStatus(a, more_commits) ==
    IF project_status[a] # "completed" /\ (project_files[a] # {} \/ more_commits)
    THEN "in_progress"
    ELSE project_status[a]

track_agent_progress(a, more_commits) ==
    /\ project_status[a] # "no_project"
    /\ more_commits => use_git
    /\ project_status' = [project_status EXCEPT ![a] = TrackedStatus(a, more_commits)]
    /\ UNCHANGED <<conflict_resolution, use_git, workspace_dir, project_files,
                   final_files, merge_summary, merge_results, merge_calls>>
    /\ UNCHANGED notCoord

\* complete_agent_project: raises CoordinationError without a project.
complete_agent_project(a) ==
    /\ project_status[a] # "no_project"
    /\ project_status' = [project_status EXCEPT ![a] = "completed"]
    /\ UNCHANGED <<conflict_resolution, use_git, workspace_dir, project_files,
                   final_files, merge_summary, merge_results, merge_calls>>
    /\ UNCHANGED notCoord

\* merge_agent_projects with merge_strategy 'combine' (the default): what it
\* does to the coordinator.
MergeInCoordinator(failure) ==
    /\ workspace_dir # None
    /\ merge_calls < MaxMerges
    /\ merge_calls' = merge_calls + 1
    /\ IF CompletedProjects = {}
       THEN /\ merge_results' = EmptyResults
            /\ UNCHANGED <<final_files, merge_summary, project_status>>
       ELSE LET m == _merge_with_files(InOrder(CompletedProjects), final_files,
                                       project_files, failure, conflict_resolution)
            IN /\ final_files' = m.final
               /\ merge_results' = m.results
               /\ merge_summary' = [writes |-> merge_summary.writes + 1,
                                    content |-> m.summary]
               /\ project_status' =
                    [a \in Agents |->
                        IF a \in CompletedProjects
                           /\ a \in SeqToSet(m.results.merged_projects)
                        THEN "merged" ELSE project_status[a]]
    /\ UNCHANGED <<conflict_resolution, use_git, workspace_dir, project_files>>

merge_agent_projects(failure) ==
    /\ MergeInCoordinator(failure)
    /\ UNCHANGED notCoord

MergeAgentProjects ==
    \E fl \in Failures(CompletedProjects) : merge_agent_projects(fl)

NextCoord ==
    \/ \E g \in BOOLEAN : initialize_session(g)
    \/ \E a \in Agents, g \in BOOLEAN : create_agent_workspace(a, g)
    \/ \E a \in Agents, p \in MergePaths : AgentWritesFile(a, p)
    \/ \E a \in Agents, c \in BOOLEAN : track_agent_progress(a, c)
    \/ \E a \in Agents : complete_agent_project(a)
    \/ MergeAgentProjects


(***************************************************************************)
(* AgentManager.calculate_completion_confidence.  Scores and weights are   *)
(* in hundredths (0.25 is 25), so overall_confidence is in ten-thousandths *)
(* and a threshold t is compared as t * 100.                               *)
(***************************************************************************)
One == 100

\* completion_weight_* of the configuration: the defaults, all the weight on
\* one signal, one signal with its default weight and the others at zero,
\* and weights that do not sum to 1.0 (the configuration is not validated).
WeightConfigs ==
    { [pattern_detection |-> 25, file_activity |-> 25,
       semantic_verification |-> 35, time_factors |-> 15],
      [pattern_detection |-> 100, file_activity |-> 0,
       semantic_verification |-> 0, time_factors |-> 0],
      [pattern_detection |-> 0, file_activity |-> 100,
       semantic_verification |-> 0, time_factors |-> 0],
      [pattern_detection |-> 0, file_activity |-> 0,
       semantic_verification |-> 100, time_factors |-> 0],
      [pattern_detection |-> 0, file_activity |-> 0,
       semantic_verification |-> 0, time_factors |-> 100],
      [pattern_detection |-> 0, file_activity |-> 0,
       semantic_verification |-> 35, time_factors |-> 0],
      [pattern_detection |-> 100, file_activity |-> 100,
       semantic_verification |-> 100, time_factors |-> 100] }

\* completion_confidence_threshold, in hundredths.
Thresholds == {50, 70, 100}

\* file_activity_timeout (minutes) and task_minimum_duration (seconds).
file_activity_timeout == 10
task_minimum_duration == 300

\* check_file_activity's result: has_files is "last_activity_time is set";
\* minutes_since_activity is (current_time - newest mtime) / 60, negative
\* when the newest mtime is later than the clock reading taken before the
\* scan.
MinutesSince == {0 - 20, 0, 5, 10, 20}
FileActivityResults ==
    { [has_files |-> FALSE, minutes_since_activity |-> 0] }
      \cup { [has_files |-> TRUE, minutes_since_activity |-> m] :
                m \in MinutesSince }

Min(a, b) == IF a <= b THEN a ELSE b
Max(a, b) == IF a >= b THEN a ELSE b

\* _parse_completion_response: 0.3 for each completion pattern found, -0.4
\* for each working indicator, 0.4 for each direct confirmation, clamped.
_parse_completion_response(completion, working, direct) ==
    Max(0, Min(One, 30 * completion - 40 * working + 40 * direct))

\* What a verification can see in the agent's answer.
MaxMatches == 1
VerificationResults ==
    { [verification_sent |-> FALSE, confidence_score |-> 0] }
      \cup { [verification_sent |-> TRUE,
              confidence_score |-> _parse_completion_response(c, w, d)] :
                c \in 0..MaxMatches, w \in 0..MaxMatches, d \in 0..MaxMatches }

\* Seconds since start_task, when a task is being timed.
TaskDurations == {0, 300, 450, 600, 900}

ConfInputs ==
    [ agent_found : BOOLEAN,
      weights : WeightConfigs,
      threshold : Thresholds,
      is_working : BOOLEAN,
      file_activity : FileActivityResults,
      verification_enabled : BOOLEAN,
      should_verify : BOOLEAN,
      verification : VerificationResults,
      task_timed : BOOLEAN,
      task_elapsed : TaskDurations ]

pattern_score(inp) == IF inp.is_working THEN 0 ELSE One

file_score(inp) ==
    IF inp.file_activity.has_files
    THEN Min(One, (inp.file_activity.minutes_since_activity * One)
                     \div file_activity_timeout)
    ELSE One

\* 0.5 when disabled, when the verification message could not be sent, and
\* when the last verification is recent (last_verification_score is never
\* stored, so the getattr default is what is read).
verification_score(inp) ==
    IF inp.verification_enabled /\ inp.should_verify
          /\ inp.verification.verification_sent
    THEN inp.verification.confidence_score
    ELSE 50

time_score(inp) ==
    IF inp.task_timed /\ inp.task_elapsed > task_minimum_duration
    THEN 50 + (Min(One, ((inp.task_elapsed - task_minimum_duration) * One)
                           \div task_minimum_duration) * 50) \div One
    ELSE 50

signal_scores(inp) ==
    [pattern_detection |-> pattern_score(inp),
     file_activity |-> file_score(inp),
     semantic_verification |-> verification_score(inp),
     time_factors |-> time_score(inp)]

overall_confidence(inp) ==
    LET sc == signal_scores(inp)
        w == inp.weights
    IN sc.pattern_detection * w.pattern_detection
         + sc.file_activity * w.file_activity
         + sc.semantic_verification * w.semantic_verification
         + sc.time_factors * w.time_factors

\* The comparison is strict.
CompletionLikelyStrict(overall, threshold) == overall > threshold * One

CompletionLikely(overall, threshold) == overall >= threshold * One

NoSignals ==
    [pattern_detection |-> 0, file_activity |-> 0,
     semantic_verification |-> 0, time_factors |-> 0]

calculate_completion_confidence(inp) ==
    IF ~inp.agent_found
    THEN [computed |-> TRUE, overall_confidence |-> 0,
          completion_likely |-> FALSE, signal_scores |-> NoSignals]
    ELSE [computed |-> TRUE,
          overall_confidence |-> overall_confidence(inp),
          completion_likely |->
              CompletionLikely(overall_confidence(inp), inp.threshold),
          signal_scores |-> signal_scores(inp)]

NoResult ==
    [computed |-> FALSE, overall_confidence |-> 0,
     completion_likely |-> FALSE, signal_scores |-> NoSignals]

IdleInput ==
    [agent_found |-> FALSE,
     weights |-> [pattern_detection |-> 25, file_activity |-> 25,
                  semantic_verification |-> 35, time_factors |-> 15],
     threshold |-> 70, is_working |-> FALSE,
     file_activity |-> [has_files |-> FALSE, minutes_since_activity |-> 0],
     verification_enabled |-> FALSE, should_verify |-> FALSE,
     verification |-> [verification_sent |-> FALSE, confidence_score |-> 0],
     task_timed |-> FALSE, task_elapsed |-> 0]

IdleConf ==
    /\ conf_input = IdleInput
    /\ conf_result = NoResult

InitConf ==
    /\ conf_input \in ConfInputs
    /\ conf_result = NoResult

CalculateCompletionConfidence ==
    /\ ~conf_result.computed
    /\ conf_result' = calculate_completion_confidence(conf_input)
    /\ UNCHANGED conf_input
    /\ UNCHANGED notConf


(***************************************************************************)
(* AgentManager.check_agent_working and Agent.time_since_message.  Clock   *)
(* readings are whole seconds: a reading equal to the message's stamp is   *)
(* the case time_since_message() = 0.0, and a fraction of a second behaves *)
(* as 1 does.                                                              *)
(***************************************************************************)
\* The readings of datetime.now() the model tells apart.
Instants == {0, 1, 29, 30, 31, 45, 59, 60, 61}

\* last_message_sent = None, and time_since_message() = None.
NoMessage == 0 - 1
NoneSeconds == 0 - 1

\* message_grace_period in the configuration: a loaded configuration file
\* replaces the defaults as a whole, so the key may be absent.
Unconfigured == 0 - 1
GracePeriods == {Unconfigured, 45, 60}

\* The default of the configuration, and the fallback check_agent_working
\* passes to config.get.
default_message_grace_period == 60
grace_period_fallback == 30

ConfiguredGrace(configured) ==
    IF configured = Unconfigured
    THEN default_message_grace_period
    ELSE configured

config_get_grace(configured) ==
    IF configured = Unconfigured THEN grace_period_fallback ELSE configured

\* What get_agent_output returned: nothing (None or ''), or text in which
\* the completion patterns and the working patterns match or not.
Outputs ==
    { o \in [available : BOOLEAN, completion : BOOLEAN, working : BOOLEAN] :
         ~o.available => (~o.completion /\ ~o.working) }

time_since_message(last, now) ==
    IF last = NoMessage THEN NoneSeconds ELSE now - last

\* "if agent.time_since_message():" is Python's truth test of the value:
\* None and 0.0 are both false.
Truthy(seconds) == seconds # NoneSeconds /\ seconds # 0

\* The grace-period fallback: time_since_message() is read once for the
\* truth test (first) and once more for the comparison (second).
GraceFallback(first, second, configured) ==
    IF Truthy(first) THEN second < config_get_grace(configured) ELSE FALSE

check_agent_working(output, first, second, configured) ==
    IF ~output.available
    THEN GraceFallback(first, second, configured)
    ELSE IF output.completion
         THEN FALSE
         ELSE IF output.working
              THEN TRUE
              ELSE GraceFallback(first, second, configured)

NoCheck ==
    [done |-> FALSE,
     output |-> [available |-> FALSE, completion |-> FALSE, working |-> FALSE],
     message_sent |-> FALSE, first |-> NoneSeconds, second |-> NoneSeconds,
     result |-> FALSE]

IdleWork ==
    /\ work_now = 0
    /\ last_message_sent = NoMessage
    /\ message_grace_period = Unconfigured
    /\ work_check = NoCheck

InitWork ==
    /\ work_now = 0
    /\ last_message_sent = NoMessage
    /\ message_grace_period \in GracePeriods
    /\ work_check = NoCheck

\* Time passes.
ClockAdvances ==
    /\ \E t \in Instants : t > work_now /\ work_now' = t
    /\ UNCHANGED <<last_message_sent, message_grace_period, work_check>>
    /\ UNCHANGED notWork

\* send_to_agent, as far as the grace period goes: the message is stamped
\* with the clock's reading.
SendStampsMessage ==
    /\ last_message_sent' = work_now
    /\ UNCHANGED <<work_now, message_grace_period, work_check>>
    /\ UNCHANGED notWork

\* One call of check_agent_working; the clock is at `later` when
\* time_since_message() is read the second time.
CheckAgentWorking(output, later) ==
    /\ later \in {work_now, work_now + 1}
    /\ work_now' = later
    /\ LET first == time_since_message(last_message_sent, work_now)
           second == time_since_message(last_message_sent, later)
       IN work_check' =
             [done |-> TRUE, output |-> output,
              message_sent |-> last_message_sent # NoMessage,
              first |-> first, second |-> second,
              result |-> check_agent_working(output, first, second,
                                             message_grace_period)]
    /\ UNCHANGED <<last_message_sent, message_grace_period>>
    /\ UNCHANGED notWork

NextWork ==
    \/ ClockAdvances
    \/ SendStampsMessage
    \/ \E o \in Outputs, t \in Instants : CheckAgentWorking(o, t)

(***************************************************************************)
(* ProjectParallelStrategy._validate_project_quality and the readiness     *)
(* test of _monitor_execution.  A project tree is the sequence of its      *)
(* files (those rglob yields outside .git); a file is its length in        *)
(* characters (chars), the length of content.strip() (stripped) and the    *)
(* number of its non-whitespace characters (nonws).                        *)
(***************************************************************************)
MaxFiles == 3

project_quality_threshold == 3
project_substantial_work_threshold == 500
min_stripped_chars == 50
min_meaningful_files == 2

\* The README.md that create_agent_workspace writes, a short file, a long
\* file, and a long file that is mostly blank inside.
ReadmeFile == [chars |-> 41, stripped |-> 40, nonws |-> 34]
ShortFile == [chars |-> 60, stripped |-> 60, nonws |-> 55]
LongFile == [chars |-> 300, stripped |-> 300, nonws |-> 250]
SparseFile == [chars |-> 400, stripped |-> 398, nonws |-> 30]
FileKinds == {ReadmeFile, ShortFile, LongFile, SparseFile}

Trees == UNION { [1..n -> FileKinds] : n \in 0..MaxFiles }

\* "if len(content.strip()) > 50".
IsMeaningful(file) == file.stripped > min_stripped_chars

RECURSIVE total_content_size(_)
total_content_size(tree) ==
    IF tree = <<>>
    THEN 0
    ELSE (IF IsMeaningful(Head(tree)) THEN Head(tree).chars ELSE 0)
            + total_content_size(Tail(tree))

meaningful_files(tree) ==
    Cardinality({ i \in 1..Len(tree) : IsMeaningful(tree[i]) })

\* The check tests the worktree and the total content only.
_validate_project_quality_nocount(files_created, has_worktree, tree) ==
    IF ~has_worktree
    THEN FALSE
    ELSE IF total_content_size(tree) < project_substantial_work_threshold
         THEN FALSE
         ELSE TRUE

_validate_project_quality(files_created, has_worktree, tree) ==
    IF files_created < project_quality_threshold
    THEN FALSE
    ELSE IF ~has_worktree
         THEN FALSE
         ELSE IF total_content_size(tree) < project_substantial_work_threshold
              THEN FALSE
              ELSE IF meaningful_files(tree) < min_meaningful_files
                   THEN FALSE
                   ELSE TRUE

\* What one tick reads for one agent: the project status and file count
\* track_agent_progress returned, the configuration, the outcome of the
\* completion detection, and the project tree.  detection_raises: an
\* exception escapes the enhanced detection and the fallback runs.
TickInputs ==
    [ status : {"no_project", "initialized", "in_progress", "completed",
                "merged"},
      meets_minimum_duration : BOOLEAN,
      require_confidence : BOOLEAN,
      detection_raises : BOOLEAN,
      completion_likely : BOOLEAN,
      is_working : BOOLEAN,
      has_worktree : BOOLEAN,
      tree : Trees ]

\* The detection of the path taken says the agent has finished.
CompletionSignal(inp) ==
    IF inp.require_confidence /\ ~inp.detection_raises
    THEN inp.completion_likely
    ELSE ~inp.is_working

\* The agent is put in agents_ready_for_completion.
ReadyForCompletion(inp) ==
    /\ inp.status \in {"initialized", "in_progress"}
    /\ inp.meets_minimum_duration
    /\ CompletionSignal(inp)
    /\ _validate_project_quality(Len(inp.tree), inp.has_worktree, inp.tree)

IdleTickInput ==
    [status |-> "no_project", meets_minimum_duration |-> FALSE,
     require_confidence |-> TRUE, detection_raises |-> FALSE,
     completion_likely |-> FALSE, is_working |-> FALSE,
     has_worktree |-> FALSE, tree |-> <<>>]

NoTick == [done |-> FALSE, ready |-> FALSE]

IdleTick ==
    /\ tick_input = IdleTickInput
    /\ tick_ready = NoTick

InitTick ==
    /\ tick_input \in TickInputs
    /\ tick_ready = NoTick

MonitorExecutionAgent ==
    /\ ~tick_ready.done
    /\ tick_ready' = [done |-> TRUE, ready |-> ReadyForCompletion(tick_input)]
    /\ UNCHANGED tick_input
    /\ UNCHANGED notTick


(***************************************************************************)
(* AgentManager (agent creation, the monitor loop, error recovery,         *)
(* shutdown) and ProjectParallelStrategy (initial prompts and the          *)
(* execution monitor), running over the coordinator.  Elapsed times and    *)
(* what the agents print are inputs of each step: a step is given whether  *)
(* a duration has passed and what the pattern checks find.                 *)
(***************************************************************************)
\* The monitor loops run until shutdown; the model follows this many passes.
MaxPasses == 3

AgentStatuses ==
    {"none", "starting", "working", "completed", "error", "stopped"}

max_recovery_attempts == 3

coordRest == <<conflict_resolution, use_git, workspace_dir, final_files,
               merge_summary, merge_results, merge_calls>>

\* The files of the model's projects: README.md as create_agent_workspace
\* writes it, every other file long.
PathContent(p) == IF p = README THEN ReadmeFile ELSE LongFile

ProjectTree(a) ==
    LET paths == InOrder(project_files[a])
    IN [i \in 1..Len(paths) |-> PathContent(paths[i])]

ProjectPassesQuality(a) ==
    _validate_project_quality(Cardinality(project_files[a]),
                              project_status[a] # "no_project",
                              ProjectTree(a))

IdleManager ==
    /\ agent_status = [a \in Agents |-> "none"]
    /\ recovery_attempts = [a \in Agents |-> 0]
    /\ task_timed = [a \in Agents |-> FALSE]
    /\ manager_phase = "initializing"
    /\ prompts_sent = 0
    /\ strategy_phase = "idle"
    /\ require_confidence = TRUE
    /\ monitor_passes = 0

InitManager ==
    /\ agent_status = [a \in Agents |-> "none"]
    /\ recovery_attempts = [a \in Agents |-> 0]
    /\ task_timed = [a \in Agents |-> FALSE]
    /\ manager_phase = "initializing"
    /\ prompts_sent = 0
    /\ strategy_phase = "idle"
    /\ require_confidence \in BOOLEAN
    /\ monitor_passes = 0

\* initialize_agents, one agent: _create_agent creates the workspace (a
\* failure is logged and the agent goes on without one), starts the
\* interface and leaves the agent WORKING; a start failure raises and ends
\* initialize_agents before the agent is appended and before the monitor is
\* started.
_create_agent(a, workspace_ok, git_ok, start_ok) ==
    /\ manager_phase = "initializing"
    /\ agent_status[a] = "none"
    /\ \A b \in Agents : b < a => agent_status[b] # "none"
    /\ IF workspace_dir # None /\ workspace_ok
       THEN /\ project_status' = [project_status EXCEPT ![a] = "initialized"]
            /\ project_files' =
                  IF use_git /\ git_ok
                  THEN [project_files EXCEPT ![a] = @ \cup {README}]
                  ELSE project_files
       ELSE UNCHANGED <<project_status, project_files>>
    /\ IF start_ok
       THEN /\ agent_status' = [agent_status EXCEPT ![a] = "working"]
            /\ manager_phase' = IF a = NumAgents - 1
                                THEN "monitoring"
                                ELSE "initializing"
       ELSE /\ manager_phase' = "failed"
            /\ UNCHANGED agent_status
    /\ UNCHANGED <<recovery_attempts, task_timed, prompts_sent, strategy_phase,
                   require_confidence, monitor_passes>>
    /\ UNCHANGED coordRest
    /\ UNCHANGED notSession

\* send_to_agent: the status it leaves.
SentStatus(ok) == IF ok THEN "working" ELSE "error"

\* _send_initial_prompts, one agent: send_to_agent, then start_task for
\* each of its tasks.
SendInitialPrompt(a, ok) ==
    /\ manager_phase = "monitoring"
    /\ strategy_phase = "idle"
    /\ a = prompts_sent
    /\ agent_status' = [agent_status EXCEPT ![a] = SentStatus(ok)]
    /\ task_timed' = [task_timed EXCEPT ![a] = TRUE]
    /\ prompts_sent' = prompts_sent + 1
    /\ strategy_phase' = IF a = NumAgents - 1 THEN "monitoring" ELSE "idle"
    /\ UNCHANGED <<recovery_attempts, manager_phase, require_confidence, monitor_passes>>
    /\ UNCHANGED varsCoord
    /\ UNCHANGED notSession

\* The status a verification inside calculate_completion_confidence leaves:
\* no message, a message sent, or a send that failed.
VerifiedStatus(status, verification) ==
    IF verification = "sent"
    THEN "working"
    ELSE IF verification = "failed" THEN "error" ELSE status

\* What one pass of the monitor loop finds for one agent.
QuietInput ==
    [running |-> TRUE, check_due |-> FALSE, verification |-> "none",
     completion_likely |-> FALSE, error_pattern |-> FALSE, send_ok |-> FALSE,
     is_working |-> FALSE]

Verifications == {"none", "sent", "failed"}

MonitorInputs ==
    { [QuietInput EXCEPT !.running = FALSE],
      QuietInput,
      [QuietInput EXCEPT !.is_working = TRUE] }
      \cup { [QuietInput EXCEPT !.check_due = TRUE, !.verification = v,
                                !.completion_likely = l] :
                v \in Verifications, l \in BOOLEAN }
      \cup { [QuietInput EXCEPT !.check_due = TRUE, !.verification = v,
                                !.completion_likely = TRUE,
                                !.error_pattern = TRUE,
                                !.send_ok = s, !.is_working = w] :
                v \in Verifications, s \in BOOLEAN, w \in BOOLEAN }
      \cup { [QuietInput EXCEPT !.check_due = d, !.error_pattern = TRUE] :
                d \in BOOLEAN }

\* A slip in handle_error_recovery: the recovered agent keeps its count.
handle_error_recovery_keeps_count(status, attempts, inp) ==
    IF attempts + 1 > max_recovery_attempts
    THEN [status |-> "error", attempts |-> attempts + 1]
    ELSE IF inp.send_ok /\ inp.is_working
         THEN [status |-> "working", attempts |-> attempts + 1]
         ELSE [status |-> SentStatus(inp.send_ok), attempts |-> attempts + 1]

\* handle_error_recovery: the fourth attempt gives up with ERROR; before
\* that the recovery message is sent, and an agent found working afterwards
\* is WORKING with its counter reset.
handle_error_recovery(status, attempts, inp) ==
    IF attempts + 1 > max_recovery_attempts
    THEN [status |-> "error", attempts |-> attempts + 1]
    ELSE IF inp.send_ok /\ inp.is_working
         THEN [status |-> "working", attempts |-> 0]
         ELSE [status |-> SentStatus(inp.send_ok), attempts |-> attempts + 1]

\* The monitor reaches complete_agent_project and it does not raise.
CompletesProject(a, inp) ==
    /\ agent_status[a] = "working"
    /\ task_timed[a]
    /\ inp.running
    /\ inp.check_due
    /\ inp.completion_likely
    /\ ~inp.error_pattern
    /\ project_status[a] # "no_project"

\* One agent's record after a pass of _monitor_agents over it: now is the
\* record before the pass, has_project tells whether the coordinator knows a
\* project of the agent.
MonitoredRecord(now, has_project, inp) ==
    IF ~inp.running
    THEN [now EXCEPT !.status = "stopped"]
    ELSE IF now.status = "working"
         THEN IF now.timed /\ inp.check_due
              THEN IF ~inp.completion_likely
                   THEN [now EXCEPT !.status =
                            VerifiedStatus(@, inp.verification)]
                   ELSE IF inp.error_pattern
                        THEN LET r == handle_error_recovery(
                                         VerifiedStatus(now.status,
                                                        inp.verification),
                                         now.attempts, inp)
                             IN [now EXCEPT !.status = r.status,
                                            !.attempts = r.attempts]
                        ELSE [now EXCEPT
                                !.status =
                                   IF has_project
                                   THEN "completed"
                                   ELSE VerifiedStatus(@, inp.verification),
                                !.timed = FALSE]
              ELSE now
         ELSE IF inp.is_working
              THEN [now EXCEPT !.status = "working", !.attempts = 0]
              ELSE now

\* The agent record after the pass.
MonitoredAgent(a, inp) ==
    MonitoredRecord([status |-> agent_status[a],
                     attempts |-> recovery_attempts[a],
                     timed |-> task_timed[a]],
                    project_status[a] # "no_project", inp)

\* _monitor_agents, one agent of one pass.
MonitorAgent(a, inp) ==
    /\ monitor_passes < MaxPasses
    /\ monitor_passes' = monitor_passes + 1
    /\ manager_phase = "monitoring"
    /\ agent_status[a] \notin {"none", "stopped"}
    /\ LET after == MonitoredAgent(a, inp)
       IN /\ agent_status' = [agent_status EXCEPT ![a] = after.status]
          /\ recovery_attempts' =
                [recovery_attempts EXCEPT ![a] = after.attempts]
          /\ task_timed' = [task_timed EXCEPT ![a] = after.timed]
    /\ project_status' =
          IF CompletesProject(a, inp)
          THEN [project_status EXCEPT ![a] = "completed"]
          ELSE project_status
    /\ UNCHANGED <<manager_phase, prompts_sent, strategy_phase,
                   require_confidence>>
    /\ UNCHANGED project_files
    /\ UNCHANGED coordRest
    /\ UNCHANGED notSession

\* shutdown: with force_exit every agent whose interface stops without an
\* exception is STOPPED; without it every agent that is not in ERROR is.
shutdown(force_exit, stop_ok) ==
    /\ manager_phase # "shutdown"
    /\ manager_phase' = "shutdown"
    /\ agent_status' =
          [a \in Agents |->
              IF agent_status[a] = "none"
              THEN "none"
              ELSE IF force_exit
                   THEN IF stop_ok[a] THEN "stopped" ELSE agent_status[a]
                   ELSE IF agent_status[a] # "error"
                        THEN "stopped"
                        ELSE agent_status[a]]
    /\ UNCHANGED <<recovery_attempts, task_timed, prompts_sent, strategy_phase,
                   require_confidence, monitor_passes>>
    /\ UNCHANGED varsCoord
    /\ UNCHANGED notSession

\* What one tick of _monitor_execution finds for one agent.
StrategyInputs ==
    { [meets_minimum_duration |-> FALSE, verification |-> "none",
       completion_likely |-> FALSE, is_working |-> FALSE] }
      \cup { [meets_minimum_duration |-> TRUE, verification |-> v,
              completion_likely |-> l, is_working |-> FALSE] :
                v \in Verifications, l \in BOOLEAN }
      \cup { [meets_minimum_duration |-> TRUE, verification |-> "none",
              completion_likely |-> FALSE, is_working |-> TRUE] }

\* The tick's view of agent a: the status track_agent_progress leaves, and
\* the record the readiness test reads.
TickView(a, inp) ==
    [status |-> IF project_status[a] = "no_project"
                THEN "no_project"
                ELSE TrackedStatus(a, FALSE),
     meets_minimum_duration |-> inp.meets_minimum_duration,
     require_confidence |-> require_confidence,
     detection_raises |-> FALSE,
     completion_likely |-> inp.completion_likely,
     is_working |-> inp.is_working,
     has_worktree |-> project_status[a] # "no_project",
     tree |-> ProjectTree(a)]

\* The enhanced detection runs for the agent at this tick.
DetectionRuns(a, inp) ==
    /\ agent_status[a] # "none"
    /\ require_confidence
    /\ TickView(a, inp).status \in {"initialized", "in_progress"}
    /\ inp.meets_minimum_duration

\* _monitor_execution, one tick: each agent's progress is tracked and its
\* readiness tested, the projects of the ready agents are completed, and
\* the loop ends when every project is Completed.
MonitorExecutionTick(inps) ==
    /\ monitor_passes < MaxPasses
    /\ monitor_passes' = monitor_passes + 1
    /\ manager_phase = "monitoring"
    /\ strategy_phase = "monitoring"
    /\ agent_status' =
          [a \in Agents |->
              IF DetectionRuns(a, inps[a])
              THEN VerifiedStatus(agent_status[a], inps[a].verification)
              ELSE agent_status[a]]
    /\ project_status' =
          [a \in Agents |->
              IF agent_status[a] = "none"
              THEN project_status[a]
              ELSE IF ReadyForCompletion(TickView(a, inps[a]))
                   THEN "completed"
                   ELSE TickView(a, inps[a]).status]
    /\ strategy_phase' =
          IF \A a \in Agents : project_status'[a] = "completed"
          THEN "succeeded"
          ELSE "monitoring"
    /\ UNCHANGED <<recovery_attempts, task_timed, manager_phase, prompts_sent,
                   require_confidence>>
    /\ UNCHANGED project_files
    /\ UNCHANGED coordRest
    /\ UNCHANGED notSession

\* _monitor_execution gives up after max_duration.
MonitorExecutionTimesOut ==
    /\ manager_phase = "monitoring"
    /\ strategy_phase = "monitoring"
    /\ strategy_phase' = "timed_out"
    /\ UNCHANGED <<agent_status, recovery_attempts, task_timed, manager_phase,
                   prompts_sent, require_confidence, monitor_passes>>
    /\ UNCHANGED varsCoord
    /\ UNCHANGED notSession

\* The agent process writes its next file while its interface runs.
AgentWritesNextFile(a) ==
    /\ agent_status[a] \notin {"none", "stopped"}
    /\ project_files[a] # Paths
    /\ AgentWritesFile(a, SetMin(Paths \ project_files[a]))

\* initialize_agents as the orchestrator calls it, after initialize_session.
initialize_agents(a, workspace_ok, git_ok, start_ok) ==
    /\ workspace_dir # None
    /\ _create_agent(a, workspace_ok, git_ok, start_ok)

\* What stopping each interface does under force_exit; without force_exit
\* no interface is stopped one by one.
StopOutcomes(force_exit) ==
    IF force_exit
    THEN [Agents -> BOOLEAN]
    ELSE {[a \in Agents |-> TRUE]}

NextSession ==
    \/ \E g \in BOOLEAN : initialize_session(g)
    \/ \E a \in Agents, w \in BOOLEAN, g \in BOOLEAN, s \in BOOLEAN :
          initialize_agents(a, w, g, s)
    \/ \E a \in Agents, ok \in BOOLEAN : SendInitialPrompt(a, ok)
    \/ \E a \in Agents, inp \in MonitorInputs : MonitorAgent(a, inp)
    \/ \E inps \in [Agents -> StrategyInputs] : MonitorExecutionTick(inps)
    \/ MonitorExecutionTimesOut
    \/ \E f \in BOOLEAN : \E ok \in StopOutcomes(f) : shutdown(f, ok)
    \/ \E a \in Agents : AgentWritesNextFile(a)

(***************************************************************************)
(* XenosyncOrchestrator.run and ProjectParallelStrategy.execute: the       *)
(* signal handler, the four loops of a run and the steps of execute        *)
(* between them.  A loop's step is one sleep and one pass of its body.     *)
(***************************************************************************)
\* max_duration / check_interval of _monitor_execution (3600 s / 30 s) and
\* finalization_timeout / check_interval of the finalization wait
\* (600 s / 15 s), in passes of the model.
MaxExecutionTicks == 3
MaxFinalizationTicks == 2

\* The passes counted after the interrupted flag is set.
TickCap == 3

Loops == {"execution", "finalization", "agents", "post_execution"}

RunPhases == {"initializing", "executing", "merging", "finalization",
              "finalizing", "monitoring", "shut_down"}

IdleRun ==
    /\ interrupted = FALSE
    /\ run_phase = "initializing"
    /\ elapsed = 0
    /\ finalization_elapsed = 0
    /\ _shutdown = FALSE
    /\ ticks_since_interrupt = [l \in Loops |-> 0]
    /\ enable_finalization = TRUE
    /\ monitor_result = "none"
    /\ merge_result = "none"
    /\ finalization_spawned = FALSE

\* XenosyncOrchestrator.__init__ and the start of run.
InitRun ==
    /\ interrupted = FALSE
    /\ run_phase = "initializing"
    /\ elapsed = 0
    /\ finalization_elapsed = 0
    /\ _shutdown = FALSE
    /\ ticks_since_interrupt = [l \in Loops |-> 0]
    /\ enable_finalization \in BOOLEAN
    /\ monitor_result = "none"
    /\ merge_result = "none"
    /\ finalization_spawned = FALSE

\* A pass of loop l: counted when the flag was set before it began.
PassOf(l) ==
    ticks_since_interrupt' =
       IF interrupted
       THEN [ticks_since_interrupt EXCEPT ![l] = Min(@ + 1, TickCap)]
       ELSE ticks_since_interrupt

\* run's finally clause: agent_manager.shutdown sets _shutdown and cancels
\* the monitoring task.
RunEnds ==
    /\ run_phase' = "shut_down"
    /\ _shutdown' = TRUE

\* shutdown_handler: SIGINT or SIGTERM.
shutdown_handler ==
    /\ run_phase # "shut_down"
    /\ ~interrupted
    /\ interrupted' = TRUE
    /\ UNCHANGED <<run_phase, elapsed, finalization_elapsed, _shutdown,
                   ticks_since_interrupt, enable_finalization, monitor_result,
                   merge_result, finalization_spawned>>
    /\ UNCHANGED notRun

\* run up to strategy.execute: initialize_agents starts the agent manager's
\* monitoring task; an exception goes to the finally clause.
RunInitializes(ok) ==
    /\ run_phase = "initializing"
    /\ IF ok
       THEN /\ run_phase' = "executing"
            /\ UNCHANGED _shutdown
       ELSE RunEnds
    /\ UNCHANGED <<interrupted, elapsed, finalization_elapsed,
                   ticks_since_interrupt, enable_finalization, monitor_result,
                   merge_result, finalization_spawned>>
    /\ UNCHANGED notRun

\* _monitor_execution, one pass of `while elapsed < max_duration`: it
\* returns True when every project is Completed.
MonitorExecutionLoop(all_complete) ==
    /\ run_phase = "executing"
    /\ elapsed < MaxExecutionTicks
    /\ elapsed' = elapsed + 1
    /\ PassOf("execution")
    /\ IF all_complete
       THEN /\ run_phase' = "merging"
            /\ monitor_result' = "success"
       ELSE UNCHANGED <<run_phase, monitor_result>>
    /\ UNCHANGED <<interrupted, finalization_elapsed, _shutdown,
                   enable_finalization, merge_result, finalization_spawned>>
    /\ UNCHANGED notRun

\* _monitor_execution returns False after max_duration; execute returns
\* False and run raises SyncError.
MonitorExecutionExpires ==
    /\ run_phase = "executing"
    /\ elapsed = MaxExecutionTicks
    /\ monitor_result' = "timed_out"
    /\ RunEnds
    /\ UNCHANGED <<interrupted, elapsed, finalization_elapsed,
                   ticks_since_interrupt, enable_finalization, merge_result,
                   finalization_spawned>>
    /\ UNCHANGED notRun

\* execute after a successful monitor: merge_agent_projects returns with
\* or without failed projects, or raises.
MergeResults == {"merged", "failed_projects", "raised"}

\* execute goes on to the finalization phase after a merge with failed
\* projects as well.
AfterMergeUnchecked(result) ==
    IF result = "raised"
    THEN "shut_down"
    ELSE IF enable_finalization THEN "finalization" ELSE "monitoring"

AfterMerge(result) ==
    IF result = "merged"
    THEN IF enable_finalization THEN "finalization" ELSE "monitoring"
    ELSE "shut_down"

ExecuteMerges(result) ==
    /\ run_phase = "merging"
    /\ merge_result' = result
    /\ run_phase' = AfterMerge(result)
    /\ _shutdown' = (AfterMerge(result) = "shut_down")
    /\ UNCHANGED <<interrupted, elapsed, finalization_elapsed,
                   ticks_since_interrupt, enable_finalization, monitor_result,
                   finalization_spawned>>
    /\ UNCHANGED notRun

\* _run_finalization_phase up to its wait loop: without final-project no
\* agent is spawned; spawn_finalization_agent appends the agent before
\* anything can fail, and returns None when the start fails.
RunFinalizationPhase(final_exists, spawn_ok) ==
    /\ run_phase = "finalization"
    /\ finalization_spawned' = final_exists
    /\ run_phase' = IF final_exists /\ spawn_ok
                    THEN "finalizing"
                    ELSE "monitoring"
    /\ UNCHANGED <<interrupted, elapsed, finalization_elapsed, _shutdown,
                   ticks_since_interrupt, enable_finalization, monitor_result,
                   merge_result>>
    /\ UNCHANGED notRun

\* The finalization wait, one pass: it ends early when the agent is gone
\* (the status tests compare an AgentStatus with a string and never hold).
FinalizationLoop(agent_found) ==
    /\ run_phase = "finalizing"
    /\ finalization_elapsed < MaxFinalizationTicks
    /\ finalization_elapsed' = finalization_elapsed + 1
    /\ PassOf("finalization")
    /\ run_phase' = IF agent_found THEN "finalizing" ELSE "monitoring"
    /\ UNCHANGED <<interrupted, elapsed, _shutdown, enable_finalization,
                   monitor_result, merge_result, finalization_spawned>>
    /\ UNCHANGED notRun

\* The finalization wait times out; execute returns True all the same.
FinalizationExpires ==
    /\ run_phase = "finalizing"
    /\ finalization_elapsed = MaxFinalizationTicks
    /\ run_phase' = "monitoring"
    /\ UNCHANGED <<interrupted, elapsed, finalization_elapsed, _shutdown,
                   ticks_since_interrupt, enable_finalization, monitor_result,
                   merge_result, finalization_spawned>>
    /\ UNCHANGED notRun

\* AgentManager._monitor_agents, one pass of `while not self._shutdown`.
\* It sleeps 10 s and the post-execution monitor 5 s: once that monitor is
\* running with the flag set, run's finally clause cancels this loop before
\* it begins a second pass.
MonitorAgentsLoop ==
    /\ run_phase \notin {"initializing", "shut_down"}
    /\ ~_shutdown
    /\ ~(/\ run_phase = "monitoring"
         /\ interrupted
         /\ ticks_since_interrupt["agents"] >= 1)
    /\ PassOf("agents")
    /\ UNCHANGED <<interrupted, run_phase, elapsed, finalization_elapsed,
                   _shutdown, enable_finalization, monitor_result,
                   merge_result, finalization_spawned>>
    /\ UNCHANGED notRun

\* The orchestrator's post-execution monitor, `while not self.interrupted`:
\* a pass while the flag is clear, the finally clause once it is set.
PostExecutionLoop ==
    /\ run_phase = "monitoring"
    /\ IF interrupted
       THEN /\ RunEnds
            /\ UNCHANGED ticks_since_interrupt
       ELSE /\ PassOf("post_execution")
            /\ UNCHANGED <<run_phase, _shutdown>>
    /\ UNCHANGED <<interrupted, elapsed, finalization_elapsed,
                   enable_finalization, monitor_result, merge_result,
                   finalization_spawned>>
    /\ UNCHANGED notRun

NextRun ==
    \/ shutdown_handler
    \/ \E ok \in BOOLEAN : RunInitializes(ok)
    \/ \E c \in BOOLEAN : MonitorExecutionLoop(c)
    \/ MonitorExecutionExpires
    \/ \E r \in MergeResults : ExecuteMerges(r)
    \/ \E f \in BOOLEAN, s \in BOOLEAN : RunFinalizationPhase(f, s)
    \/ \E f \in BOOLEAN : FinalizationLoop(f)
    \/ FinalizationExpires
    \/ MonitorAgentsLoop
    \/ PostExecutionLoop

\* The agent process writes a file of its own: README.md is the
\* coordinator's.
AgentWritesOwnFile(a, p) ==
    /\ p # README
    /\ AgentWritesFile(a, p)

\* The first merge of the session.
FirstMerge ==
    /\ merge_calls = 0
    /\ MergeAgentProjects

\* A session from initialize_session to the merge, the agents writing
\* their own files only.
NextEndToEnd ==
    \/ \E g \in BOOLEAN : initialize_session(g)
    \/ \E a \in Agents, g \in BOOLEAN : create_agent_workspace(a, g)
    \/ \E a \in Agents, p \in Paths : AgentWritesOwnFile(a, p)
    \/ \E a \in Agents : complete_agent_project(a)
    \/ FirstMerge

(***************************************************************************)
(* Task delivery (project_strategies.py, agent_manager.py).                *)
(***************************************************************************)
TaskAgents == 0..(task_agents - 1)

\* The steps of a prompt with n steps, each named by its number.
NumberedSteps(n) == [i \in 1..n |-> i]

TasksOf(a) == { task_assignments[a][i] : i \in 1..Len(task_assignments[a]) }

AllTasks == UNION { TasksOf(a) : a \in TaskAgents }

IdleTasks ==
    /\ task_agents = 2
    /\ task_assignments = <<>>
    /\ delivered = <<>>
    /\ current_task_number = <<>>
    /\ confirmed_tasks = <<>>
    /\ task_status = <<>>
    /\ task_project = <<>>
    /\ prompt_cursor = 0

\* execute() up to the call of _send_initial_prompts: the tasks are divided,
\* every agent is idle in a project in progress, nothing has been sent.
InitTasks ==
    /\ task_agents \in 2..MaxAgents
    /\ \E n \in 1..MaxTasks :
           task_assignments = _divide_tasks(NumberedSteps(n), task_agents)
    /\ delivered = [a \in TaskAgents |-> {}]
    /\ current_task_number = [a \in TaskAgents |-> 0]
    /\ confirmed_tasks = [a \in TaskAgents |-> {}]
    /\ task_status = [a \in TaskAgents |-> "idle"]
    /\ task_project = [a \in TaskAgents |-> "in_progress"]
    /\ prompt_cursor = 0

\* Agent.start_task, called for every task of the list in turn: the last
\* call's number is the one that stays.
start_task_each(tasks) == tasks[Len(tasks)]

\* One turn of the loop of _send_initial_prompts: an agent without tasks is
\* passed over; the others get ONE message that lists the content of every
\* task of theirs, and start_task is then called for each of the tasks.
\* send_to_agent leaves the agent working, or in error when the send raised.
SendInitialPrompts(send_ok) ==
    /\ prompt_cursor < task_agents
    /\ LET a == prompt_cursor
           tasks == task_assignments[a]
       IN IF tasks = <<>>
          THEN UNCHANGED <<delivered, current_task_number, task_status>>
          ELSE /\ delivered' =
                      [delivered EXCEPT ![a] = IF send_ok THEN TasksOf(a) ELSE @]
               /\ task_status' =
                      [task_status EXCEPT
                          ![a] = IF send_ok THEN "working" ELSE "error"]
               /\ current_task_number' =
                      [current_task_number EXCEPT ![a] = start_task_each(tasks)]
    /\ prompt_cursor' = prompt_cursor + 1
    /\ UNCHANGED <<task_agents, task_assignments, confirmed_tasks, task_project>>
    /\ UNCHANGED notTasks

\* The strategy has a method send_next_task_to_agent: no class of
\* project_strategies.py defines one.
strategy_sends_next_task == FALSE

\* The completion branch of _monitor_agents for a working agent whose task
\* is timed: the monitor logs the completion of current_task_number, marks
\* the project complete and the agent COMPLETED (unless
\* complete_agent_project raises), clears the task, and asks the strategy
\* for the next task only when the strategy can send one.
MonitorConfirmsCompletion(a, complete_ok) ==
    /\ task_status[a] = "working"
    /\ current_task_number[a] # 0
    /\ confirmed_tasks' =
           [confirmed_tasks EXCEPT ![a] = @ \cup {current_task_number[a]}]
    /\ task_project' =
           [task_project EXCEPT ![a] = IF complete_ok THEN "completed" ELSE @]
    /\ LET remaining == TasksOf(a) \ delivered[a]
       IN IF strategy_sends_next_task /\ remaining # {}
          THEN LET next == CHOOSE t \in remaining : \A u \in remaining : t <= u
               IN /\ delivered' = [delivered EXCEPT ![a] = @ \cup {next}]
                  /\ current_task_number' =
                         [current_task_number EXCEPT ![a] = next]
                  /\ task_status' = [task_status EXCEPT ![a] = "working"]
          ELSE /\ delivered' = delivered
               /\ current_task_number' = [current_task_number EXCEPT ![a] = 0]
               /\ task_status' =
                      [task_status EXCEPT
                          ![a] = IF complete_ok THEN "completed" ELSE @]
    /\ UNCHANGED <<task_agents, task_assignments, prompt_cursor>>
    /\ UNCHANGED notTasks

NextTasks ==
    \/ \E ok \in BOOLEAN : SendInitialPrompts(ok)
    \/ \E a \in TaskAgents, ok \in BOOLEAN : MonitorConfirmsCompletion(a, ok)

(***************************************************************************)
(* Error recovery (agent_manager.py): handle_error_recovery as the monitor *)
(* calls it, pass after pass, for one agent.                               *)
(***************************************************************************)
MaxRecoveryPasses == 6

NoCall == [attempt |-> 0, sent |-> FALSE, is_working |-> FALSE]

IdleRecovery ==
    /\ rec_agent = [status |-> "none", attempts |-> 0, timed |-> FALSE]
    /\ rec_call = NoCall
    /\ rec_prev = NoCall
    /\ call_fresh = FALSE
    /\ rec_exhausted = FALSE
    /\ rec_passes = 0

\* The agent after send_to_agent and start_task: WORKING, no recovery
\* attempted, its task timed.
InitRecovery ==
    /\ rec_agent = [status |-> "working", attempts |-> 0, timed |-> TRUE]
    /\ rec_call = NoCall
    /\ rec_prev = NoCall
    /\ call_fresh = FALSE
    /\ rec_exhausted = FALSE
    /\ rec_passes = 0

\* The pass reaches `await self.handle_error_recovery(agent.id)`.
CallsRecovery(now, inp) ==
    /\ inp.running
    /\ now.status = "working"
    /\ now.timed
    /\ inp.check_due
    /\ inp.completion_likely
    /\ inp.error_pattern

\* The call of handle_error_recovery that finds attempts at k - 1: which
\* attempt it is, whether the recovery message went out and whether
\* check_agent_working then found the agent working.
RecoveryCall(now, inp) ==
    LET k == now.attempts + 1
        sent == k <= max_recovery_attempts /\ inp.send_ok
    IN [attempt |-> k, sent |-> sent, is_working |-> sent /\ inp.is_working]

\* A pass of _monitor_agents over the agent.
MonitorPass(inp, has_project) ==
    /\ rec_passes < MaxRecoveryPasses
    /\ rec_passes' = rec_passes + 1
    /\ rec_agent.status # "stopped"
    /\ rec_agent' = MonitoredRecord(rec_agent, has_project, inp)
    /\ IF CallsRecovery(rec_agent, inp)
       THEN /\ rec_call' = RecoveryCall(rec_agent, inp)
            /\ rec_prev' = rec_call
            /\ call_fresh' = TRUE
            /\ rec_exhausted' =
                  (rec_exhausted
                      \/ rec_agent.attempts + 1 > max_recovery_attempts)
       ELSE /\ call_fresh' = FALSE
            /\ UNCHANGED <<rec_call, rec_prev, rec_exhausted>>
    /\ UNCHANGED notRecovery

NextRecovery ==
    \E inp \in MonitorInputs, has_project \in BOOLEAN :
        MonitorPass(inp, has_project)

(***************************************************************************)
(* The history of completion confidence readings (agent_manager.py).       *)
(***************************************************************************)
\* Readings the monitor takes in a run of the model.
MaxChecks == 12

\* `if len(history) > 10: history = history[-10:]`
history_limit == 10

HistoryAgents == {0, 1}

IdleHistory ==
    /\ completion_confidence_history = <<>>
    /\ readings_taken = <<>>
    /\ history_clock = 0

\* Agent: completion_confidence_history = field(default_factory=list)
InitHistory ==
    /\ completion_confidence_history = [a \in HistoryAgents |-> <<>>]
    /\ readings_taken = [a \in HistoryAgents |-> <<>>]
    /\ history_clock = 0

\* history[:10], the slip that keeps the oldest readings.
keep_first(h, n) == IF Len(h) > n THEN SubSeq(h, 1, n) ELSE h

\* history[-10:]
keep_last(h, n) == IF Len(h) > n THEN SubSeq(h, Len(h) - n + 1, Len(h)) ELSE h

\* A completion check of agent a: the reading, stamped with the time, is
\* appended and the history is cut to its last ten entries.
StoreConfidence(a) ==
    /\ history_clock < MaxChecks
    /\ history_clock' = history_clock + 1
    /\ LET reading == history_clock + 1
       IN /\ completion_confidence_history' =
                 [completion_confidence_history EXCEPT
                     ![a] = keep_last(Append(@, reading), history_limit)]
          /\ readings_taken' = [readings_taken EXCEPT ![a] = Append(@, reading)]
    /\ UNCHANGED notHistory

NextHistory == \E a \in HistoryAgents : StoreConfidence(a)

(***************************************************************************)
(* The manual merge triggers and the merge decision of the orchestrator's  *)
(* post-execution monitor (orchestrator.py).                               *)
(***************************************************************************)
IdleForce ==
    /\ force_merge = FALSE
    /\ merge_trigger_file = FALSE
    /\ merge_reason = ""

\* get_session_status: total_projects, completed_projects, merged_projects
total_projects == Cardinality({a \in Agents : project_status[a] # "no_project"})
completed_projects == Cardinality(CompletedProjects)
merged_projects == Cardinality({a \in Agents : project_status[a] = "merged"})

\* merge_handler: SIGUSR1 sets the flag.
merge_handler ==
    /\ force_merge' = TRUE
    /\ UNCHANGED <<merge_trigger_file, merge_reason>>
    /\ UNCHANGED varsCoord
    /\ UNCHANGED notForce

\* The user runs `touch .xenosync_merge_now`.
TouchTriggerFile ==
    /\ merge_trigger_file' = TRUE
    /\ UNCHANGED <<force_merge, merge_reason>>
    /\ UNCHANGED varsCoord
    /\ UNCHANGED notForce

\* should_merge and merge_reason of one pass of the monitor.
MergeDecision(manual_merge_requested) ==
    IF merged_projects > 0 \/ completed_projects = 0
    THEN ""
    ELSE IF completed_projects = total_projects
         THEN "automatic"
         ELSE IF manual_merge_requested THEN "manual" ELSE ""

\* A slip in the monitor: the flag is read and left set.
ConsumeKeepsFlag == force_merge' = force_merge /\ merge_trigger_file' = FALSE

\* The trigger file is removed and the flag is reset.
ConsumeTriggers == force_merge' = FALSE /\ merge_trigger_file' = FALSE

\* One pass of the post-execution monitor: the triggers are read and
\* cleared, the session status is read, and the projects are merged when
\* should_merge is set; an exception of the merge is logged.
PostExecutionPass(failures) ==
    /\ workspace_dir # None
    /\ ConsumeTriggers
    /\ LET reason == MergeDecision(merge_trigger_file \/ force_merge)
       IN IF reason # ""
          THEN /\ merge_reason' = reason
               /\ \E fl \in failures : MergeInCoordinator(fl)
          ELSE UNCHANGED <<merge_reason, varsCoord>>
    /\ UNCHANGED notForce

PostExecutionTick == PostExecutionPass(Failures(CompletedProjects))

\* A pass whose merge, if it merges, copies every project without failure.
PostExecutionTickMergeSucceeds ==
    PostExecutionPass({[a \in Agents |-> NoFailure]})

\* The session under the post-execution monitor: the agents write, the
\* status display tracks their progress, the agent manager's monitor marks
\* projects complete, the user asks for a merge.
NextForce ==
    \/ \E g \in BOOLEAN : initialize_session(g)
    \/ \E a \in Agents, g \in BOOLEAN : create_agent_workspace(a, g)
    \/ \E a \in Agents, p \in MergePaths : AgentWritesFile(a, p)
    \/ \E a \in Agents, c \in BOOLEAN : track_agent_progress(a, c)
    \/ \E a \in Agents : complete_agent_project(a)
    \/ merge_handler
    \/ TouchTriggerFile
    \/ PostExecutionTick

(***************************************************************************)
(* The wait of _run_finalization_phase for the finalization agent          *)
(* (project_strategies.py, agent_manager.py).                              *)
(***************************************************************************)
\* config.get('finalization_timeout', 600) and check_interval, in seconds.
finalization_timeout == 600
finalization_check_interval == 15

IdleFinal ==
    /\ fin_status = "none"
    /\ fin_elapsed = 0
    /\ fin_result = "none"

\* spawn_finalization_agent has returned the agent's id: the agent is
\* WORKING and the wait begins.
InitFinal ==
    /\ fin_status = "working"
    /\ fin_elapsed = 0
    /\ fin_result = "waiting"

\* `agent.status == 'completed'`: AgentStatus is a plain Enum, and a member
\* of a plain Enum is equal to no string.
StatusEqualsText(status, text) == FALSE

\* The agent manager writes the agent's status while the strategy sleeps.
FinalizationAgentBecomes(status) ==
    /\ fin_result = "waiting"
    /\ fin_status # "stopped"
    /\ fin_status' = status
    /\ UNCHANGED <<fin_elapsed, fin_result>>
    /\ UNCHANGED notFinal

\* One turn of the wait: sleep(check_interval), then the status check.
FinalizationCheck ==
    /\ fin_result = "waiting"
    /\ fin_elapsed < finalization_timeout
    /\ fin_elapsed' = fin_elapsed + finalization_check_interval
    /\ fin_result' =
          IF StatusEqualsText(fin_status, "completed") THEN "success"
          ELSE IF StatusEqualsText(fin_status, "error") THEN "failure"
          ELSE "waiting"
    /\ UNCHANGED fin_status
    /\ UNCHANGED notFinal

\* The loop condition fails: stop_finalization_agent, then return False.
\* The agent is STOPPED unless interface.stop() raises.
FinalizationTimesOut(stop_ok) ==
    /\ fin_result = "waiting"
    /\ fin_elapsed >= finalization_timeout
    /\ fin_status' = IF stop_ok THEN "stopped" ELSE fin_status
    /\ fin_result' = "failure"
    /\ UNCHANGED fin_elapsed
    /\ UNCHANGED notFinal

NextFinal ==
    \/ \E status \in {"working", "completed", "error", "stopped"} :
          FinalizationAgentBecomes(status)
    \/ FinalizationCheck
    \/ \E ok \in BOOLEAN : FinalizationTimesOut(ok)

(***************************************************************************)
(* AgentManager.calculate_completion_confidence called repeatedly for one  *)
(* agent: the verification cache on the agent record and what a call       *)
(* writes to the record.  Times are seconds, scores hundredths.            *)
(***************************************************************************)
completion_verification_interval == 300
verification_response_wait == 30

MaxDetectorClock == 700

\* How long the caller waits between two calls.
DetectorWaits == {30, 270, 300}

\* last_verification_time = None.
NeverVerified == 0 - 1

\* No verification has produced a score yet.
NoScore == 0 - 1

\* The dataclass default of last_verification_score.
default_verification_score == 50

\* The scores _parse_completion_response can give an answer.
ResponseScores ==
    { _parse_completion_response(c, w, d) :
         c \in 0..MaxMatches, w \in 0..MaxMatches, d \in 0..MaxMatches }

\* The agent when the strategy's loop first calls the detector for it: the
\* loop tests the project's status, not the agent's.
DetectorAgents ==
    { r \in [status : {"working", "error", "stopped"},
             error : {"", "recoverable error"},
             recovery_attempts : {0, 1},
             current_task_number : {1, 2},
             current_task_start_time : {0},
             last_message_sent : {0},
             last_verification_time : {NeverVerified},
             last_verification_score : {default_verification_score}] :
         (r.status = "error") <=> (r.error # "") }

NoDetection ==
    [done |-> FALSE, recent |-> FALSE, messages |-> 0,
     score |-> default_verification_score, previous |-> NoScore,
     produced |-> NoScore, before_status |-> "working", before_error |-> "",
     before_recovery_attempts |-> 0, before_task_number |-> 1,
     before_task_start_time |-> 0, before_verification_time |-> NeverVerified]

IdleDetector ==
    /\ detector_now = 0
    /\ detector_agent =
          [status |-> "working", error |-> "", recovery_attempts |-> 0,
           current_task_number |-> 1, current_task_start_time |-> 0,
           last_message_sent |-> 0, last_verification_time |-> NeverVerified,
           last_verification_score |-> default_verification_score]
    /\ detection = NoDetection
    /\ completion_verification_enabled = TRUE

InitDetector ==
    /\ detector_now = 0
    /\ detector_agent \in DetectorAgents
    /\ detection = NoDetection
    /\ completion_verification_enabled \in BOOLEAN

\* send_to_agent on the agent's record.
SendToAgentRecord(agent, now, ok) ==
    IF ok
    THEN [agent EXCEPT !.status = "working", !.last_message_sent = now]
    ELSE [agent EXCEPT !.status = "error", !.error = "send failed"]

\* should_verify of calculate_completion_confidence.
ShouldVerify(agent, now) ==
    \/ agent.last_verification_time = NeverVerified
    \/ now - agent.last_verification_time > completion_verification_interval

\* A verification for the agent ran less than the interval ago.
VerifiedRecently(agent, now) ==
    /\ agent.last_verification_time # NeverVerified
    /\ now - agent.last_verification_time < completion_verification_interval

\* The caller's sleep between two calls.
DetectorClockAdvances(d) ==
    /\ detector_now + d <= MaxDetectorClock
    /\ detector_now' = detector_now + d
    /\ UNCHANGED <<detector_agent, detection, completion_verification_enabled>>
    /\ UNCHANGED notDetector

\* One call of calculate_completion_confidence, as far as the agent record
\* and the verification signal go: send_ok is whether send_to_agent
\* succeeds, answer the score of the agent's answer (0 without output).
CalculateConfidence(send_ok, answer) ==
    LET agent == detector_agent
        now == detector_now
        verifies == completion_verification_enabled /\ ShouldVerify(agent, now)
        sent == verifies /\ send_ok
        after_send == IF verifies
                      THEN SendToAgentRecord(agent, now, send_ok)
                      ELSE agent
        used == IF ~completion_verification_enabled
                THEN default_verification_score
                ELSE IF ~verifies
                     THEN agent.last_verification_score
                     ELSE IF sent THEN answer ELSE default_verification_score
    IN /\ detector_now + verification_response_wait <= MaxDetectorClock
       /\ detector_agent' =
             IF sent
             THEN [after_send EXCEPT !.last_verification_time = now]
             ELSE after_send
       /\ detector_now' = IF sent
                          THEN now + verification_response_wait
                          ELSE now
       /\ detection' =
             [done |-> TRUE,
              recent |-> completion_verification_enabled
                            /\ VerifiedRecently(agent, now),
              messages |-> IF sent THEN 1 ELSE 0,
              score |-> used,
              previous |-> detection.produced,
              produced |-> IF sent THEN answer ELSE detection.produced,
              before_status |-> agent.status,
              before_error |-> agent.error,
              before_recovery_attempts |-> agent.recovery_attempts,
              before_task_number |-> agent.current_task_number,
              before_task_start_time |-> agent.current_task_start_time,
              before_verification_time |-> agent.last_verification_time]
       /\ UNCHANGED completion_verification_enabled
       /\ UNCHANGED notDetector

NextDetector ==
    \/ \E d \in DetectorWaits : DetectorClockAdvances(d)
    \/ \E ok \in BOOLEAN, answer \in ResponseScores :
          CalculateConfidence(ok, answer)

(***************************************************************************)
(* The semantic verification of calculate_completion_confidence under the  *)
(* two tasks that call it for one agent: AgentManager._monitor_agents and  *)
(* ProjectParallelStrategy._monitor_execution.  A call reads               *)
(* last_verification_time, sends the message, awaits the response wait and *)
(* stores last_verification_time only then.                                *)
(***************************************************************************)
Callers == {"monitor", "strategy"}

MaxVerifyClock == 400

\* The steps of the wall clock between two events.
VerifyClockSteps == {10, 30, 300}

IdleVerify ==
    /\ verify_clock = 0
    /\ last_verification_time = NeverVerified
    /\ verification_messages = <<>>
    /\ detector_pc = [c \in Callers |-> "idle"]
    /\ current_time = [c \in Callers |-> 0]

InitVerify == IdleVerify

\* A suspended caller is resumed when its asyncio.sleep is over: the clock
\* does not pass the end of a response wait.
VerifyClockAdvances(d) ==
    /\ verify_clock + d <= MaxVerifyClock
    /\ \A c \in Callers :
          detector_pc[c] = "waiting"
             => verify_clock + d <= current_time[c] + verification_response_wait
    /\ verify_clock' = verify_clock + d
    /\ UNCHANGED <<last_verification_time, verification_messages, detector_pc,
                   current_time>>
    /\ UNCHANGED notVerify

\* should_verify as a call finds it.
VerificationDue ==
    \/ last_verification_time = NeverVerified
    \/ verify_clock - last_verification_time > completion_verification_interval

\* A call by caller c whose verification is due, up to the await of
\* verify_agent_completion: when the message is sent the caller is
\* suspended for the response wait; when the send fails the call goes on
\* with the neutral score and stores nothing.
VerificationBegins(c, send_ok) ==
    /\ detector_pc[c] = "idle"
    /\ VerificationDue
    /\ IF send_ok
       THEN /\ verification_messages' =
                  Append(verification_messages,
                         [time |-> verify_clock, caller |-> c])
            /\ detector_pc' = [detector_pc EXCEPT ![c] = "waiting"]
            /\ current_time' = [current_time EXCEPT ![c] = verify_clock]
       ELSE UNCHANGED <<verification_messages, detector_pc, current_time>>
    /\ UNCHANGED <<verify_clock, last_verification_time>>
    /\ UNCHANGED notVerify

\* The response wait is over: the call stores the time it read before the
\* verification.
VerificationReturns(c) ==
    /\ detector_pc[c] = "waiting"
    /\ verify_clock >= current_time[c] + verification_response_wait
    /\ last_verification_time' = current_time[c]
    /\ detector_pc' = [detector_pc EXCEPT ![c] = "idle"]
    /\ UNCHANGED <<verify_clock, verification_messages, current_time>>
    /\ UNCHANGED notVerify

NextVerify ==
    \/ \E d \in VerifyClockSteps : VerifyClockAdvances(d)
    \/ \E c \in Callers, ok \in BOOLEAN : VerificationBegins(c, ok)
    \/ \E c \in Callers : VerificationReturns(c)

(***************************************************************************)
(* AgentManager._monitor_agents and spawn_finalization_agent.  An          *)
(* iteration of the monitor's loop over self.agents tests the agent's      *)
(* status and the stop_regular_monitoring flag, awaits is_agent_running    *)
(* and the checks that follow, and writes the status afterwards; the       *)
(* strategy's task calls spawn_finalization_agent in between.              *)
(***************************************************************************)
\* No iteration is suspended.
NoIteration == 0

\* The statuses the regular agents can have when the merge is over.
StatusesAfterMerge == {"working", "completed", "error", "stopped"}

IdleSpawn ==
    /\ manager_agents = [i \in 1..NumAgents |-> [id |-> i - 1, status |-> "completed"]]
    /\ stop_regular_monitoring = FALSE
    /\ monitoring_agent = NoIteration

InitSpawn ==
    /\ \E st \in [1..NumAgents -> StatusesAfterMerge] :
          manager_agents = [i \in 1..NumAgents |-> [id |-> i - 1, status |-> st[i]]]
    /\ stop_regular_monitoring = FALSE
    /\ monitoring_agent = NoIteration

\* max(a.id for a in self.agents)
max_agent_id ==
    CHOOSE m \in { manager_agents[i].id : i \in 1..Len(manager_agents) } :
       \A i \in 1..Len(manager_agents) : manager_agents[i].id <= m

\* spawn_finalization_agent: the agent gets id len(self.agents), is appended
\* in status STARTING and the flag is set before anything can fail; it is
\* WORKING when the interface started and the prompt was sent.
spawn_finalization_agent(start_ok) ==
    /\ ~stop_regular_monitoring
    /\ manager_agents' =
          Append(manager_agents,
                 [id |-> Len(manager_agents),
                  status |-> IF start_ok THEN "working" ELSE "starting"])
    /\ stop_regular_monitoring' = TRUE
    /\ UNCHANGED monitoring_agent
    /\ UNCHANGED notSpawn

\* The top of an iteration: a STOPPED agent is skipped, and with the flag
\* set every agent below the highest id; the iteration is then suspended
\* in `await self.is_agent_running`.
MonitorIterationBegins(i) ==
    /\ monitoring_agent = NoIteration
    /\ i \in 1..Len(manager_agents)
    /\ manager_agents[i].status # "stopped"
    /\ ~(stop_regular_monitoring /\ manager_agents[i].id < max_agent_id)
    /\ monitoring_agent' = i
    /\ UNCHANGED <<manager_agents, stop_regular_monitoring>>
    /\ UNCHANGED notSpawn

\* The statuses the rest of an iteration can leave: STOPPED when the
\* process is gone; for a WORKING agent the completion branch (COMPLETED, or
\* the outcome of a recovery); for any other agent WORKING when
\* check_agent_working is true.
IterationOutcomes(status) ==
    {status, "stopped"}
       \cup (IF status = "working" THEN {"completed", "error"} ELSE {"working"})

\* The rest of the iteration, after its awaits.
MonitorIterationEnds(status) ==
    /\ monitoring_agent # NoIteration
    /\ status \in IterationOutcomes(manager_agents[monitoring_agent].status)
    /\ manager_agents' =
          [manager_agents EXCEPT ![monitoring_agent].status = status]
    /\ monitoring_agent' = NoIteration
    /\ UNCHANGED stop_regular_monitoring
    /\ UNCHANGED notSpawn

NextSpawn ==
    \/ \E ok \in BOOLEAN : spawn_finalization_agent(ok)
    \/ \E i \in 1..(NumAgents + 1) : MonitorIterationBegins(i)
    \/ \E status \in AgentStatuses : MonitorIterationEnds(status)

(***************************************************************************)
(* Minimum work duration: _monitor_execution of the strategy and           *)
(* _monitor_agents of the agent manager over the same agent.               *)
(***************************************************************************)
\* config 'minimum_work_duration_minutes' and the agent manager's
\* task_completion_check_interval (seconds).
minimum_work_duration_minutes == 10
task_completion_check_interval == 180

MaxDurationClock == 720
\* asyncio.sleep(10) of the agent manager's monitor, sleep(30) of the
\* strategy's loop, and a long wait.
DurationClockSteps == {10, 30, 300}
NoTime == 0 - 1

DurationStatuses == {"starting", "working", "completed", "error", "stopped"}

IdleDuration ==
    /\ duration_clock = 0
    /\ agent_start_times = NoTime
    /\ task_start_time = NoTime
    /\ last_completion_check = NoTime
    /\ duration_agent_status = "starting"
    /\ duration_project_status = "initialized"
    /\ completed_at = NoTime

InitDuration == IdleDuration

notDurationClock ==
    <<agent_start_times, task_start_time, last_completion_check,
      duration_agent_status, duration_project_status, completed_at>>

\* execute: the strategy stamps the agent's start time.
StampStartTimes ==
    /\ agent_start_times = NoTime
    /\ agent_start_times' = duration_clock
    /\ UNCHANGED <<duration_clock, task_start_time, last_completion_check,
                   duration_agent_status, duration_project_status,
                   completed_at>>
    /\ UNCHANGED notDuration

\* Time passes once the stamp is taken.
DurationClockAdvances(d) ==
    /\ agent_start_times # NoTime
    /\ duration_clock + d <= MaxDurationClock
    /\ duration_clock' = duration_clock + d
    /\ UNCHANGED notDurationClock
    /\ UNCHANGED notDuration

\* _send_initial_prompts for the agent: send_to_agent sets Working (Error
\* when the send raises), then start_task stamps the task's start.
StartTimedTask(send_ok) ==
    /\ agent_start_times # NoTime
    /\ task_start_time = NoTime
    /\ duration_agent_status = "starting"
    /\ duration_agent_status' = IF send_ok THEN "working" ELSE "error"
    /\ task_start_time' = duration_clock
    /\ last_completion_check' = NoTime
    /\ UNCHANGED <<duration_clock, agent_start_times,
                   duration_project_status, completed_at>>
    /\ UNCHANGED notDuration

\* work_duration_minutes >= minimum_duration_minutes, in seconds.
meets_minimum_duration ==
    /\ agent_start_times # NoTime
    /\ duration_clock - agent_start_times
          >= 60 * minimum_work_duration_minutes

\* _monitor_execution, the agent's part of one tick: track_agent_progress
\* (a project with files is InProgress), then, for a project that is not
\* Completed and an agent that met the minimum duration and passed the
\* detection and the quality test, complete_agent_project.
StrategyTick(has_files, ready) ==
    /\ task_start_time # NoTime
    /\ LET tracked == IF duration_project_status # "completed" /\ has_files
                      THEN "in_progress"
                      ELSE duration_project_status
       IN IF tracked # "completed" /\ meets_minimum_duration /\ ready
          THEN /\ duration_project_status' = "completed"
               /\ completed_at' = duration_clock
          ELSE /\ duration_project_status' = tracked
               /\ UNCHANGED completed_at
    /\ UNCHANGED <<duration_clock, agent_start_times, task_start_time,
                   last_completion_check, duration_agent_status>>
    /\ UNCHANGED notDuration

\* can_check_for_completion(task_minimum_duration) and
\* time_since_last_check() >= task_completion_check_interval.
CompletionCheckDue ==
    /\ task_start_time # NoTime
    /\ duration_clock - task_start_time >= task_minimum_duration
    /\ \/ last_completion_check = NoTime
       \/ duration_clock - last_completion_check
             >= task_completion_check_interval

\* _monitor_agents, the agent's part of one pass.
ManagerMonitorPass(running, completion_likely, error_pattern, is_working) ==
    /\ task_start_time # NoTime
    /\ duration_agent_status # "stopped"
    /\ IF ~running
       THEN /\ duration_agent_status' = "stopped"
            /\ UNCHANGED <<last_completion_check, duration_project_status,
                           completed_at>>
       ELSE IF duration_agent_status = "working"
            THEN IF CompletionCheckDue
                 THEN /\ last_completion_check' = duration_clock
                      /\ IF completion_likely /\ ~error_pattern
                         THEN /\ duration_project_status' = "completed"
                              /\ completed_at' = duration_clock
                              /\ duration_agent_status' = "completed"
                         ELSE UNCHANGED <<duration_project_status,
                                          completed_at,
                                          duration_agent_status>>
                 ELSE UNCHANGED <<last_completion_check,
                                  duration_project_status, completed_at,
                                  duration_agent_status>>
            ELSE /\ duration_agent_status' =
                       IF is_working THEN "working" ELSE duration_agent_status
                 /\ UNCHANGED <<last_completion_check,
                                duration_project_status, completed_at>>
    /\ UNCHANGED <<duration_clock, agent_start_times, task_start_time>>
    /\ UNCHANGED notDuration

NextDuration ==
    \/ StampStartTimes
    \/ \E d \in DurationClockSteps : DurationClockAdvances(d)
    \/ \E ok \in BOOLEAN : StartTimedTask(ok)
    \/ \E f \in BOOLEAN, r \in BOOLEAN : StrategyTick(f, r)
    \/ \E r \in BOOLEAN, l \in BOOLEAN, e \in BOOLEAN, w \in BOOLEAN :
          ManagerMonitorPass(r, l, e, w)

(***************************************************************************)
(* file_utils.py: FileLock and update_json_file on one path.               *)
(***************************************************************************)
\* The callers (threads or processes) of update_json_file on the path;
\* caller c's updater records c in the data it is given.
LockCallers == {1, 2, 3}

\* The turns of the loop of acquire before its timeout (30 s) is over.
MaxLockAttempts == 3

IdleLock ==
    /\ lock_exists = FALSE
    /\ lock_pc = <<>>
    /\ lock_attempts = <<>>
    /\ lock_data = <<>>
    /\ json_file = <<>>

\* Nobody has called yet; the file holds the empty document.
InitLock ==
    /\ lock_exists = FALSE
    /\ lock_pc = [c \in LockCallers |-> "idle"]
    /\ lock_attempts = [c \in LockCallers |-> 0]
    /\ lock_data = [c \in LockCallers |-> <<>>]
    /\ json_file = <<>>

\* A slip in acquire: the lock file is opened with 'w', which never fails.
open_truncating_fails == FALSE

\* open(lock_path, 'x') raises FileExistsError.
open_exclusive_fails == lock_exists

\* FileLock.acquire, one turn of its loop: the lock file is created
\* exclusively, or the caller sleeps 0.1 s and tries again.
acquire(c) ==
    /\ lock_pc[c] \in {"idle", "waiting"}
    /\ lock_attempts[c] < MaxLockAttempts
    /\ lock_attempts' = [lock_attempts EXCEPT ![c] = @ + 1]
    /\ IF open_exclusive_fails
       THEN /\ lock_pc' = [lock_pc EXCEPT ![c] = "waiting"]
            /\ UNCHANGED lock_exists
       ELSE /\ lock_pc' = [lock_pc EXCEPT ![c] = "locked"]
            /\ lock_exists' = TRUE
    /\ UNCHANGED <<lock_data, json_file>>
    /\ UNCHANGED notLock

\* acquire returns False when the timeout is over and __enter__ raises
\* TimeoutError: update_json_file ends without touching the file.
AcquireTimesOut(c) ==
    /\ lock_pc[c] = "waiting"
    /\ lock_attempts[c] = MaxLockAttempts
    /\ lock_pc' = [lock_pc EXCEPT ![c] = "raised"]
    /\ UNCHANGED <<lock_exists, lock_attempts, lock_data, json_file>>
    /\ UNCHANGED notLock

\* data = read_json_file(path)
read_json_file(c) ==
    /\ lock_pc[c] = "locked"
    /\ lock_data' = [lock_data EXCEPT ![c] = json_file]
    /\ lock_pc' = [lock_pc EXCEPT ![c] = "read"]
    /\ UNCHANGED <<lock_exists, lock_attempts, json_file>>
    /\ UNCHANGED notLock

\* updated_data = updater(data); write_json_file(path, updated_data): the
\* temporary file is renamed over the path.
write_json_file(c) ==
    /\ lock_pc[c] = "read"
    /\ json_file' = Append(lock_data[c], c)
    /\ lock_pc' = [lock_pc EXCEPT ![c] = "written"]
    /\ UNCHANGED <<lock_exists, lock_attempts, lock_data>>
    /\ UNCHANGED notLock

\* FileLock.release from __exit__: the lock file is closed and unlinked,
\* and update_json_file returns.
release(c) ==
    /\ lock_pc[c] = "written"
    /\ lock_exists' = FALSE
    /\ lock_pc' = [lock_pc EXCEPT ![c] = "returned"]
    /\ UNCHANGED <<lock_attempts, lock_data, json_file>>
    /\ UNCHANGED notLock

NextLock ==
    \/ \E c \in LockCallers : acquire(c)
    \/ \E c \in LockCallers : AcquireTimesOut(c)
    \/ \E c \in LockCallers : read_json_file(c)
    \/ \E c \in LockCallers : write_json_file(c)
    \/ \E c \in LockCallers : release(c)

IdleThird == IdleForce /\ IdleFinal /\ IdleDetector
        /\ IdleVerify
        /\ IdleSpawn
        /\ IdleDuration
        /\ IdleLock

\* The groups added after the session.
IdleLater == IdleRun /\ IdleTasks /\ IdleRecovery /\ IdleHistory /\ IdleThird

IdleSecond == IdleRun /\ IdleTasks /\ IdleRecovery /\ IdleHistory

IdleEarlier ==
    IdleDivide /\ IdleCoord /\ IdleConf /\ IdleWork /\ IdleTick /\ IdleManager

(***************************************************************************)
(* Specifications.                                                         *)
(***************************************************************************)
InitDivide ==
    /\ steps \in StepLists
    /\ num_agents \in 2..MaxAgents
    /\ assignments = <<>>
    /\ divided = FALSE
    /\ IdleCoord
    /\ IdleConf
    /\ IdleWork
    /\ IdleTick
    /\ IdleManager
    /\ IdleLater

NextDivide == DivideTasks

SpecDivide == InitDivide /\ [][NextDivide]_vars

InitMerge ==
    /\ InitCoord /\ IdleDivide /\ IdleConf /\ IdleWork /\ IdleTick /\ IdleManager
    /\ IdleLater

NextMerge == NextCoord

SpecMerge == InitMerge /\ [][NextMerge]_vars

InitConfidence ==
    /\ InitConf /\ IdleDivide /\ IdleCoord /\ IdleWork /\ IdleTick /\ IdleManager
    /\ IdleLater

NextConf == CalculateCompletionConfidence

SpecConf == InitConfidence /\ [][NextConf]_vars

InitWorking ==
    /\ InitWork /\ IdleDivide /\ IdleCoord /\ IdleConf /\ IdleTick /\ IdleManager
    /\ IdleLater

SpecWorking == InitWorking /\ [][NextWork]_vars

InitQuality ==
    /\ InitTick /\ IdleDivide /\ IdleCoord /\ IdleConf /\ IdleWork /\ IdleManager
    /\ IdleLater

NextQuality == MonitorExecutionAgent

SpecQuality == InitQuality /\ [][NextQuality]_vars

\* A session: the orchestrator's coordinator, agent manager and strategy,
\* under the default conflict policy and with git in use.
Init ==
    /\ InitCoord
    /\ conflict_resolution = "skip"
    /\ use_git = TRUE
    /\ InitManager
    /\ IdleDivide /\ IdleConf /\ IdleWork /\ IdleTick
    /\ IdleLater

Next == NextSession

Spec == Init /\ [][Next]_vars

\* The coordinator from end to end.
InitEndToEnd == InitCoord /\ IdleDivide /\ IdleConf /\ IdleWork /\ IdleTick
                          /\ IdleManager /\ IdleLater

SpecEndToEnd == InitEndToEnd /\ [][NextEndToEnd]_vars

\* A run of the orchestrator: its signal handler and its loops.
InitRunSpec ==
    InitRun /\ IdleEarlier /\ IdleTasks /\ IdleRecovery /\ IdleHistory
        /\ IdleThird

SpecRun == InitRunSpec /\ [][NextRun]_vars

InitTasksSpec ==
    InitTasks /\ IdleEarlier /\ IdleRun /\ IdleRecovery /\ IdleHistory
        /\ IdleThird

SpecTasks == InitTasksSpec /\ [][NextTasks]_vars

InitRecoverySpec ==
    InitRecovery /\ IdleEarlier /\ IdleRun /\ IdleTasks /\ IdleHistory
        /\ IdleThird

SpecRecovery == InitRecoverySpec /\ [][NextRecovery]_vars

InitHistorySpec ==
    InitHistory /\ IdleEarlier /\ IdleRun /\ IdleTasks /\ IdleRecovery
        /\ IdleThird

SpecHistory == InitHistorySpec /\ [][NextHistory]_vars

\* The post-execution monitor over the coordinator, default configuration.
InitForceSpec ==
    /\ InitCoord
    /\ conflict_resolution = "skip"
    /\ use_git = TRUE
    /\ IdleForce
    /\ IdleDivide /\ IdleConf /\ IdleWork /\ IdleTick /\ IdleManager
    /\ IdleSecond
    /\ IdleFinal
    /\ IdleDetector
    /\ IdleVerify
    /\ IdleSpawn
    /\ IdleDuration
    /\ IdleLock

SpecForce == InitForceSpec /\ [][NextForce]_vars

\* The same session once the agents write no new file, when no merge
\* fails and the monitor's loop, which sleeps 5 s and runs its body again
\* until interrupted, keeps ticking.
NextForceFair ==
    \/ \E g \in BOOLEAN : initialize_session(g)
    \/ \E a \in Agents, g \in BOOLEAN : create_agent_workspace(a, g)
    \/ \E a \in Agents, c \in BOOLEAN : track_agent_progress(a, c)
    \/ \E a \in Agents : complete_agent_project(a)
    \/ merge_handler
    \/ TouchTriggerFile
    \/ PostExecutionTickMergeSucceeds

SpecForceFair ==
    /\ InitForceSpec
    /\ [][NextForceFair]_vars
    /\ WF_vars(PostExecutionTickMergeSucceeds)

\* The wait of the finalization phase.
InitFinalSpec ==
    InitFinal /\ IdleEarlier /\ IdleSecond /\ IdleForce /\ IdleDetector
        /\ IdleVerify
        /\ IdleSpawn
        /\ IdleDuration
        /\ IdleLock

SpecFinal == InitFinalSpec /\ [][NextFinal]_vars

\* The completion detector called again and again for one agent.
InitDetectorSpec ==
    InitDetector /\ IdleEarlier /\ IdleSecond /\ IdleForce /\ IdleFinal
        /\ IdleVerify
        /\ IdleSpawn
        /\ IdleDuration
        /\ IdleLock

SpecDetector == InitDetectorSpec /\ [][NextDetector]_vars

\* The two loops calling the completion detector for one agent.
InitVerifySpec ==
    InitVerify /\ IdleEarlier /\ IdleSecond /\ IdleForce /\ IdleFinal
        /\ IdleDetector
        /\ IdleSpawn
        /\ IdleDuration
        /\ IdleLock

SpecVerify == InitVerifySpec /\ [][NextVerify]_vars

\* The agent manager's monitor and the spawn of the finalization agent.
InitSpawnSpec ==
    InitSpawn /\ IdleEarlier /\ IdleSecond /\ IdleForce /\ IdleFinal
        /\ IdleDetector /\ IdleVerify
        /\ IdleDuration
        /\ IdleLock

SpecSpawn == InitSpawnSpec /\ [][NextSpawn]_vars

\* The strategy's loop and the agent manager's monitor over one agent.
InitDurationSpec ==
    InitDuration /\ IdleEarlier /\ IdleSecond /\ IdleForce /\ IdleFinal
        /\ IdleDetector /\ IdleVerify /\ IdleSpawn
        /\ IdleLock

SpecDuration == InitDurationSpec /\ [][NextDuration]_vars

\* Concurrent update_json_file calls on one path.
InitLockSpec ==
    InitLock /\ IdleEarlier /\ IdleSecond /\ IdleForce /\ IdleFinal
        /\ IdleDetector /\ IdleVerify /\ IdleSpawn /\ IdleDuration

SpecLock == InitLockSpec /\ [][NextLock]_vars

(***************************************************************************)
(* Claims.                                                                 *)
(***************************************************************************)
\* C1: round-robin distribution. The task at 0-based position i of the list
\* is in the list of agent (i mod N) and in no other agent's list, each
\* agent's list keeps prompt order, and any two lists differ in size by at
\* most 1.
DivideRoundRobin ==
    divided =>
        /\ DOMAIN assignments = 0..(num_agents - 1)
        /\ \A i \in 0..(Len(steps) - 1) :
              \A a \in 0..(num_agents - 1) :
                 (\E k \in 1..Len(assignments[a]) : assignments[a][k] = steps[i + 1])
                    <=> (a = i % num_agents)
        /\ \A a \in 0..(num_agents - 1) :
              \A k \in 1..Len(assignments[a]) :
                 assignments[a][k] = steps[(k - 1) * num_agents + a + 1]
        /\ \A a, b \in 0..(num_agents - 1) :
              /\ Len(assignments[a]) - Len(assignments[b]) <= 1
              /\ Len(assignments[b]) - Len(assignments[a]) <= 1

\* A distribution with more tasks than agents has been computed.
DivideWitness ==
    /\ divided
    /\ Len(steps) > num_agents
    /\ \E a \in 0..(num_agents - 1) : Len(assignments[a]) >= 2

\* A step that is a call of merge_agent_projects.
MergeCall == merge_calls' # merge_calls

FinalPaths == { p \in Paths : final_files[p] # NoFile }

PairwiseDisjoint(S) ==
    \A a, b \in S : a # b => project_files[a] \cap project_files[b] = {}

\* C3: merge_agent_projects copies into final-project only files of projects
\* that are Completed when it is called: every path whose content changes
\* holds a file of such a project afterwards, the merged and failed lists
\* name only such projects, and with no Completed project the call changes
\* no file and writes no MERGE_SUMMARY.md.
MergeOnlyCompleted ==
    [][MergeCall =>
        /\ \A p \in Paths :
              final_files'[p] # final_files[p] =>
                 /\ final_files'[p] \in Agents
                 /\ project_status[final_files'[p]] = "completed"
                 /\ p \in project_files[final_files'[p]]
        /\ SeqToSet(merge_results'.merged_projects)
              \cup SeqToSet(merge_results'.failed_projects)
                 \subseteq { a \in Agents : project_status[a] = "completed" }
        /\ (\A a \in Agents : project_status[a] # "completed") =>
              /\ final_files' = final_files
              /\ merge_summary' = merge_summary
              /\ merge_results' = EmptyResults
      ]_vars

\* A merge has run while one project with files was still in progress: the
\* other project was merged and nothing of the first is in final-project.
MergeOnlyCompletedWitness ==
    /\ merge_calls >= 1
    /\ \E a, b \in Agents :
          /\ project_status[a] = "in_progress"
          /\ project_files[a] # {}
          /\ project_status[b] = "merged"
          /\ \E p \in Paths : final_files[p] = b
          /\ \A p \in Paths : final_files[p] # a

ConflictReportComplete ==
    [][MergeCall =>
        \A a, b \in CompletedProjects :
           (/\ a # b
            /\ {a, b} \subseteq SeqToSet(merge_results'.merged_projects)) =>
              \A p \in project_files[a] \cap project_files[b] :
                 \E i \in 1..Len(merge_summary'.content.conflicts) :
                    /\ merge_summary'.content.conflicts[i].file = p
                    /\ {a, b} \subseteq
                          SeqToSet(merge_summary'.content.conflicts[i].agents)
      ]_vars

\* The same under the skip policy only.
ConflictReportCompleteSkip ==
    [][(MergeCall /\ conflict_resolution = "skip") =>
        \A a, b \in CompletedProjects :
           (/\ a # b
            /\ {a, b} \subseteq SeqToSet(merge_results'.merged_projects)) =>
              \A p \in project_files[a] \cap project_files[b] :
                 \E i \in 1..Len(merge_summary'.content.conflicts) :
                    /\ merge_summary'.content.conflicts[i].file = p
                    /\ {a, b} \subseteq
                          SeqToSet(merge_summary'.content.conflicts[i].agents)
      ]_vars

WeightNames ==
    {"pattern_detection", "file_activity", "semantic_verification",
     "time_factors"}

\* C8: overall_confidence is within [0,1] whatever the signals and the
\* configured weights are, and when three of the four weights are zero it
\* equals the score of the signal that has the remaining weight.
ConfidenceBounds ==
    (conf_result.computed /\ conf_input.agent_found) =>
        /\ conf_result.overall_confidence >= 0
        /\ conf_result.overall_confidence <= One * One
        /\ \A n \in WeightNames :
              (\A m \in WeightNames \ {n} : conf_input.weights[m] = 0) =>
                 conf_result.overall_confidence
                    = conf_result.signal_scores[n] * One

\* The first half of C8 for weights that are not negative and sum to 1.0.
ConfidenceBoundsValidWeights ==
    (/\ conf_result.computed
     /\ conf_input.agent_found
     /\ \A n \in WeightNames : conf_input.weights[n] >= 0
     /\ conf_input.weights.pattern_detection
          + conf_input.weights.file_activity
          + conf_input.weights.semantic_verification
          + conf_input.weights.time_factors = One) =>
        /\ conf_result.overall_confidence >= 0
        /\ conf_result.overall_confidence <= One * One

\* C9: completion_likely is true exactly when overall_confidence >=
\* threshold, and with the same signals and weights a higher threshold never
\* gives completion_likely where the lower one did not.
ThresholdInclusiveMonotone ==
    conf_result.computed =>
        /\ conf_result.completion_likely
              <=> (conf_result.overall_confidence
                      >= conf_input.threshold * One)
        /\ \A t \in Thresholds :
              (t >= conf_input.threshold /\ ~conf_result.completion_likely) =>
                 ~calculate_completion_confidence(
                     [conf_input EXCEPT !.threshold = t]).completion_likely

\* A call whose overall confidence is exactly the threshold, found likely,
\* and that a higher threshold would find not likely.
ThresholdWitness ==
    /\ conf_result.computed
    /\ conf_input.agent_found
    /\ conf_result.overall_confidence = conf_input.threshold * One
    /\ conf_result.completion_likely
    /\ \E t \in Thresholds :
          /\ t > conf_input.threshold
          /\ ~calculate_completion_confidence(
                 [conf_input EXCEPT !.threshold = t]).completion_likely

\* C10: when a message was sent to the agent less than message_grace_period
\* seconds ago (60 when the configuration does not set it) and the output
\* shows neither a completion nor a working pattern (no output at all
\* included), check_agent_working returns true.
GracePeriodHolds ==
    (/\ work_check.done
     /\ work_check.message_sent
     /\ work_check.second < ConfiguredGrace(message_grace_period)
     /\ ~work_check.output.completion
     /\ ~work_check.output.working) => work_check.result

\* The same when the configuration sets the grace period and the truth test
\* does not read the message's age as 0.
GracePeriodHoldsConfiguredLater ==
    (/\ work_check.done
     /\ work_check.message_sent
     /\ message_grace_period # Unconfigured
     /\ work_check.first # 0
     /\ work_check.second < ConfiguredGrace(message_grace_period)
     /\ ~work_check.output.completion
     /\ ~work_check.output.working) => work_check.result

\* The configuration sets the grace period, and yet a check of an agent
\* whose message is no older than the reading of the clock finds it idle.
GraceZeroAgeIdle ==
    /\ work_check.done
    /\ work_check.message_sent
    /\ message_grace_period # Unconfigured
    /\ work_check.second < message_grace_period
    /\ ~work_check.output.completion
    /\ ~work_check.output.working
    /\ ~work_check.result

\* No grace period is configured, and a check 45 seconds after the message
\* finds the agent idle.
GraceDefaultIdle ==
    /\ work_check.done
    /\ work_check.message_sent
    /\ message_grace_period = Unconfigured
    /\ work_check.first = 45
    /\ ~work_check.output.completion
    /\ ~work_check.output.working
    /\ ~work_check.result

FilesWithNonWhitespace(tree) ==
    Cardinality({ i \in 1..Len(tree) : tree[i].nonws > min_stripped_chars })

ReadyOnEnhancedPath ==
    /\ tick_ready.ready
    /\ tick_input.require_confidence
    /\ ~tick_input.detection_raises

ReadyOnFallbackPath ==
    /\ tick_ready.ready
    /\ tick_input.require_confidence
    /\ tick_input.detection_raises

ReadyOnBasicPath ==
    /\ tick_ready.ready
    /\ ~tick_input.require_confidence

\* The moves the status sequence
\* Starting (Working (-> Error -> Working)*)* (Completed | Stopped | Error)
\* allows; an agent is created Starting and left Working in one step, and
\* an agent in Error may be stopped.
AllowedStatusMoves ==
    { <<"none", "working">>,
      <<"working", "error">>,
      <<"error", "working">>,
      <<"working", "completed">>,
      <<"working", "stopped">>,
      <<"error", "stopped">> }

\* C2 as stated: over every interleaving of agent creation, send_to_agent,
\* monitor passes, verification, error recovery and shutdown, each change
\* of an agent's status is a move of the sequence Starting (Working
\* (-> Error -> Working)*)* (Completed | Stopped | Error); a status of
\* Completed or Stopped is never changed.
StatusSequence ==
    [][\A a \in Agents :
          agent_status'[a] # agent_status[a]
             => <<agent_status[a], agent_status'[a]>> \in AllowedStatusMoves]_vars

\* The two halves of the terminal part of C2, one by one.
CompletedIsTerminal ==
    [][\A a \in Agents :
          agent_status[a] = "completed" => agent_status'[a] = "completed"]_vars

StoppedIsTerminal ==
    [][\A a \in Agents :
          agent_status[a] = "stopped" => agent_status'[a] = "stopped"]_vars

\* What the monitor loop alone guarantees: it passes over a Stopped agent.
MonitorSkipsStopped ==
    [][\A a \in Agents :
          (\E inp \in MonitorInputs : MonitorAgent(a, inp))
             => agent_status[a] # "stopped"]_vars

\* C7 as stated: a project becomes Completed only when it passes the
\* project-quality check, whether the strategy's monitoring loop or the
\* agent manager's monitoring loop completes it.
CompletionRequiresQuality ==
    [][\A a \in Agents :
          (project_status'[a] = "completed" /\ project_status[a] # "completed")
             => ProjectPassesQuality(a)]_vars

\* The strategy's half of C7: a project completed by a step that does not
\* leave its agent Completed, which is a tick of _monitor_execution, passes
\* the check.
StrategyCompletionRequiresQuality ==
    [][\A a \in Agents :
          (/\ project_status'[a] = "completed"
           /\ project_status[a] # "completed"
           /\ agent_status'[a] # "completed")
             => ProjectPassesQuality(a)]_vars

\* The strategy completes a project that passes the check.
StrategyCompletesProject ==
    /\ strategy_phase = "succeeded"
    /\ \A a \in Agents : ProjectPassesQuality(a)

\* The agent manager completes a project that holds its README.md only.
ManagerCompletesBareProject ==
    \E a \in Agents :
       /\ agent_status[a] = "completed"
       /\ project_status[a] = "completed"
       /\ project_files[a] = {README}

\* C11 as stated: once the interrupted flag is set, each loop of the run
\* (the strategy's execution monitor, the finalization wait, the agent
\* manager's monitor and the orchestrator's post-execution monitor) exits
\* within one pass: no loop begins a second pass with the flag set.
CancellationWithinOneTick ==
    \A l \in Loops : ticks_since_interrupt[l] <= 1

\* C11 loop by loop: the post-execution monitor tests the flag at the head
\* of every pass; the other three never read it.
PostExecutionObservesInterrupt ==
    ticks_since_interrupt["post_execution"] = 0

ExecutionObservesInterrupt ==
    ticks_since_interrupt["execution"] <= 1

FinalizationObservesInterrupt ==
    ticks_since_interrupt["finalization"] <= 1

AgentsObservesInterrupt ==
    ticks_since_interrupt["agents"] <= 1

\* The post-execution monitor is left because of the flag.
PostExecutionInterrupted ==
    /\ interrupted
    /\ run_phase = "shut_down"
    /\ monitor_result = "success"
    /\ merge_result = "merged"

\* C16: the finalization agent is spawned only after the execution monitor
\* has succeeded and merge_agent_projects has returned without a failed
\* project, with enable_finalization set; never after a timeout, a failed
\* merge, or with finalization disabled.
FinalizationAfterMerge ==
    finalization_spawned =>
       /\ monitor_result = "success"
       /\ merge_result = "merged"
       /\ enable_finalization

\* The finalization agent is spawned, and runs that must not spawn it have
\* been seen through: here one where it is spawned.
FinalizationAfterMergeWitness ==
    /\ finalization_spawned
    /\ merge_result = "merged"
    /\ run_phase = "finalizing"

\* Runs that end without a finalization agent: a failed merge, a timeout,
\* finalization disabled.
NoFinalizationAfterFailedMerge ==
    /\ merge_result = "failed_projects"
    /\ run_phase = "shut_down"
    /\ ~finalization_spawned

NoFinalizationAfterTimeout ==
    /\ monitor_result = "timed_out"
    /\ ~finalization_spawned

NoFinalizationWhenDisabled ==
    /\ ~enable_finalization
    /\ merge_result = "merged"
    /\ run_phase = "monitoring"
    /\ ~finalization_spawned

\* The paths of final-project that a merge call has filled from project a.
CopiedFrom(a) ==
    { p \in Paths : final_files'[p] = a /\ final_files[p] # a }

\* C12 as stated: a merge is atomic for each agent project: a project that
\* has put a file in final-project is reported merged and every one of its
\* files is there, and a project reported in failed_projects has left no
\* file in final-project.
MergeAtomic ==
    [][MergeCall =>
        \A a \in CompletedProjects :
           /\ a \in SeqToSet(merge_results'.failed_projects) =>
                 CopiedFrom(a) = {}
           /\ CopiedFrom(a) # {} =>
                 /\ a \in SeqToSet(merge_results'.merged_projects)
                 /\ \A p \in project_files[a] : final_files'[p] # NoFile
      ]_vars

\* The same for the calls in which no copy raises.
MergeAtomicWithoutFailure ==
    [][(MergeCall /\ merge_results'.failed_projects = <<>>) =>
        \A a \in CompletedProjects :
           CopiedFrom(a) # {} =>
              /\ a \in SeqToSet(merge_results'.merged_projects)
              /\ \A p \in project_files[a] : final_files'[p] # NoFile
      ]_vars

\* A project is reported failed, is still Completed, and one of its two
\* files is in final-project while the other is not.
FailedProjectLeftFile ==
    \E a \in Agents :
       /\ a \in SeqToSet(merge_results.failed_projects)
       /\ project_status[a] = "completed"
       /\ \E p, q \in project_files[a] :
             final_files[p] = a /\ final_files[q] = NoFile

\* The files the agents wrote themselves.
OwnFiles(a) == project_files[a] \ {README}

\* Every project is Completed and no path was written by two agents.
EndToEndReady ==
    /\ \A a \in Agents : project_status[a] = "completed"
    /\ \A a, b \in Agents : a # b => OwnFiles(a) \cap OwnFiles(b) = {}

\* C20 as stated: after initialize_session and create_agent_workspace for
\* both agents, with both projects Completed and no file written by both
\* agents, the merge leaves in final-project the union of the agents' files
\* and MERGE_SUMMARY.md reports Merged Projects: 2 and Conflicts: 0.
EndToEndMerge ==
    [][(MergeCall /\ EndToEndReady /\ merge_results'.failed_projects = <<>>) =>
        /\ FinalPaths' =
              FinalPaths \cup UNION { project_files[a] : a \in Agents }
        /\ merge_summary'.content.merged = NumAgents
        /\ Len(merge_summary'.content.conflicts) = 0
      ]_vars

\* The parts of C20 that hold: the merged count and the paths of
\* final-project.
EndToEndUnion ==
    [][(MergeCall /\ EndToEndReady /\ merge_results'.failed_projects = <<>>) =>
        /\ FinalPaths' =
              FinalPaths \cup UNION { project_files[a] : a \in Agents }
        /\ merge_summary'.content.merged = NumAgents
      ]_vars

\* C20 holds in full when no project holds the coordinator's README.md.
EndToEndMergeWithoutReadme ==
    [][(/\ MergeCall
        /\ EndToEndReady
        /\ merge_results'.failed_projects = <<>>
        /\ \A a \in Agents : README \notin project_files[a]) =>
        /\ merge_summary'.content.merged = NumAgents
        /\ Len(merge_summary'.content.conflicts) = 0
      ]_vars

\* Both projects were merged, each agent wrote one file of its own, and
\* the summary counts a conflict for README.md.
EndToEndReadmeConflict ==
    /\ merge_summary.writes = 1
    /\ merge_summary.content.merged = NumAgents
    /\ \A a \in Agents : project_status[a] = "merged" /\ OwnFiles(a) # {}
    /\ \A a, b \in Agents : a # b => OwnFiles(a) \cap OwnFiles(b) = {}
    /\ Len(merge_summary.content.conflicts) > 0
    /\ \A i \in 1..Len(merge_summary.content.conflicts) :
          merge_summary.content.conflicts[i].file = README


\* The tasks of agent a in each of the three states of the task driver:
\* queued (assigned, the agent's turn in _send_initial_prompts still to
\* come), in progress (the agent's current_task_number) and completed
\* (confirmed by the monitor).
QueuedTasks(a) == IF a < prompt_cursor THEN {} ELSE TasksOf(a)
InProgressTasks(a) == {current_task_number[a]} \ {0}
CompletedTasks(a) == confirmed_tasks[a]

RECURSIVE SumOver(_, _)
SumOver(S, f) ==
    IF S = {} THEN 0
    ELSE LET x == CHOOSE y \in S : TRUE
         IN f[x] + SumOver(S \ {x}, f)

TaskCount(a) ==
    Cardinality(QueuedTasks(a)) + Cardinality(InProgressTasks(a))
        + Cardinality(CompletedTasks(a))

\* C13: queue completeness. At every moment the queued, in-progress and
\* completed tasks of all the agents number |T| together, and once every
\* agent that has tasks is completed, every task is in the completed list of
\* exactly one agent.
QueueCompleteness ==
    /\ SumOver(TaskAgents, [a \in TaskAgents |-> TaskCount(a)])
           = Cardinality(AllTasks)
    /\ (\A a \in TaskAgents : TasksOf(a) # {} => task_status[a] = "completed")
           => \A t \in AllTasks :
                  Cardinality({a \in TaskAgents : t \in CompletedTasks(a)}) = 1

\* C13, what the code does keep: a task is never counted twice, neither in
\* two states nor for two agents.
NoTaskCountedTwice ==
    /\ \A a \in TaskAgents :
           /\ QueuedTasks(a) \cap InProgressTasks(a) = {}
           /\ QueuedTasks(a) \cap CompletedTasks(a) = {}
           /\ InProgressTasks(a) \cap CompletedTasks(a) = {}
           /\ InProgressTasks(a) \cup CompletedTasks(a) \subseteq TasksOf(a)
    /\ \A a, b \in TaskAgents : a # b => TasksOf(a) \cap TasksOf(b) = {}

\* C13: an agent has been sent two tasks and only one of them is accounted
\* for.
TaskLostFromCount ==
    \E a \in TaskAgents :
        /\ Cardinality(delivered[a]) >= 2
        /\ TaskCount(a) < Cardinality(TasksOf(a))

\* C14: task order per agent. The content of the task after task k in an
\* agent's list is never sent to the agent before the monitor has confirmed
\* the completion of task k.
TaskOrderPerAgent ==
    \A a \in TaskAgents :
        \A i \in 1..(Len(task_assignments[a]) - 1) :
            task_assignments[a][i + 1] \in delivered[a]
                => task_assignments[a][i] \in confirmed_tasks[a]

\* C14: nothing has been confirmed and an agent holds the content of its
\* second task.
SecondTaskSentUnconfirmed ==
    \E a \in TaskAgents :
        /\ Len(task_assignments[a]) >= 2
        /\ task_assignments[a][2] \in delivered[a]
        /\ confirmed_tasks[a] = {}

\* The tasks of agent a whose completion the monitor has not confirmed.
Unconfirmed(a) == TasksOf(a) \ confirmed_tasks[a]

\* C15: sequential delivery. An agent, and its project, is marked completed
\* only when none of its tasks is left to do.
CompletedOnlyWhenQueueEmpty ==
    \A a \in TaskAgents :
        (task_status[a] = "completed" \/ task_project[a] = "completed")
            => Unconfirmed(a) = {}

\* C15: when the monitor confirms a task of an agent that has tasks left,
\* the agent is given the next of them as its current task and is working
\* again.
NextTaskFollowsConfirmation ==
    [][\A a \in TaskAgents :
          (confirmed_tasks'[a] # confirmed_tasks[a] /\ Unconfirmed(a)' # {})
              => /\ current_task_number'[a] \in Unconfirmed(a)'
                 /\ task_status'[a] = "working"]_vars

\* C15: an agent is completed after one confirmation, with a task of its
\* list never confirmed.
CompletedWithTaskLeft ==
    \E a \in TaskAgents :
        /\ task_status[a] = "completed"
        /\ task_project[a] = "completed"
        /\ Cardinality(confirmed_tasks[a]) = 1
        /\ Unconfirmed(a) # {}


\* C17: recovery exhaustion. Once recovery has given up on an agent, the
\* agent stays in Error (until its process is found stopped) and no recovery
\* message is sent to it again: no later pass of the monitor has it working.
RecoveryExhaustion ==
    rec_exhausted
        => /\ rec_agent.status \in {"error", "stopped"}
           /\ ~(call_fresh /\ rec_call.sent)

\* C17, the call that gives up: the fourth call sets Error and sends nothing.
GivingUpSetsError ==
    (call_fresh /\ rec_call.attempt > max_recovery_attempts)
        => /\ rec_agent.status = "error"
           /\ rec_agent.attempts = rec_call.attempt
           /\ ~rec_call.sent

\* C17: recovery gave up on the agent and a later pass found it working.
ExhaustedAgentWorksAgain ==
    /\ rec_exhausted
    /\ rec_agent.status = "working"
    /\ rec_agent.attempts = 0

\* C17: a recovery message goes to an agent recovery had given up on.
ExhaustedAgentGetsMessage ==
    /\ rec_exhausted
    /\ call_fresh
    /\ rec_call.sent

ThirdAttemptFailed ==
    /\ call_fresh
    /\ rec_call.attempt = 3
    /\ rec_call.sent
    /\ ~rec_call.is_working
    /\ rec_agent.attempts = 3

\* C19: the confidence history is bounded. Every agent's
\* completion_confidence_history holds at most ten entries, and they are the
\* latest readings taken of the agent, in the order they were taken.
HistoryBounded ==
    \A a \in HistoryAgents :
        /\ Len(completion_confidence_history[a]) <= history_limit
        /\ LET n == Len(readings_taken[a])
               oldest == IF n > history_limit THEN n - history_limit + 1 ELSE 1
           IN completion_confidence_history[a]
                  = [i \in 1..(n - oldest + 1) |->
                        readings_taken[a][oldest + i - 1]]
        /\ \A i, j \in 1..Len(completion_confidence_history[a]) :
               i < j => completion_confidence_history[a][i]
                            < completion_confidence_history[a][j]

\* C19: an agent has been read more than ten times and its oldest readings
\* are gone from the history.
HistoryBoundedWitness ==
    \E a \in HistoryAgents :
        /\ Len(readings_taken[a]) > history_limit + 1
        /\ Len(completion_confidence_history[a]) = history_limit
        /\ completion_confidence_history[a][1] = readings_taken[a][3]

\* A pass of the post-execution monitor that finds a merge request.
ConsumesRequest ==
    \/ force_merge /\ ~force_merge'
    \/ merge_trigger_file /\ ~merge_trigger_file'

\* A step in which the projects are merged.
MergeRuns == merge_calls' # merge_calls

FinalizationChecks ==
    /\ fin_result = "waiting"
    /\ fin_elapsed' # fin_elapsed \/ fin_result' # fin_result

\* C22: the end of the finalization phase. A check that finds the
\* finalization agent Completed ends the phase with success, a check that
\* finds it in Error ends it with failure, and the phase ends by timeout
\* otherwise, with failure and with the agent stopped.
FinalizationEnds ==
    [][FinalizationChecks
          => /\ (fin_elapsed < finalization_timeout /\ fin_status = "completed")
                    => fin_result' = "success"
             /\ (fin_elapsed < finalization_timeout /\ fin_status = "error")
                    => fin_result' = "failure"
             /\ fin_elapsed >= finalization_timeout
                    => fin_result' = "failure" /\ fin_status' = "stopped"]_vars

\* C22, what the code does: no check ever ends the phase, which always runs
\* to the timeout and never succeeds.
FinalizationOnlyTimesOut ==
    /\ fin_result # "success"
    /\ fin_result = "failure" => fin_elapsed >= finalization_timeout

\* C22: a check has found the agent Completed and the phase goes on waiting.
CompletedAgentStillAwaited ==
    /\ fin_status = "completed"
    /\ fin_elapsed >= 2 * finalization_check_interval
    /\ fin_result = "waiting"

\* C22: the phase has timed out and the agent is stopped.
FinalizationTimedOut ==
    /\ fin_result = "failure"
    /\ fin_status = "stopped"
    /\ fin_elapsed = finalization_timeout

(***************************************************************************)
(* C23: the stored session status after an interrupt.                      *)
(***************************************************************************)
\* The status file_session_manager holds for the session: Active from
\* create_session; run stores Completed when execute has returned True,
\* before the post-execution monitor; Failed in `except Exception`;
\* Interrupted in `except SyncInterrupted`, which nothing raises.
session_status ==
    IF run_phase = "monitoring" THEN "completed"
    ELSE IF run_phase = "shut_down"
         THEN IF merge_result = "merged" THEN "completed" ELSE "failed"
         ELSE "active"

\* C23: when the user has sent an interrupt or terminate signal to a running
\* session, the session's stored status once run has returned is
\* Interrupted.
InterruptedSessionMarked ==
    (run_phase = "shut_down" /\ interrupted)
        => session_status = "interrupted"

\* run never stores Interrupted: after a signal the session ends Completed
\* or Failed.
InterruptedSessionEndsCompletedOrFailed ==
    (run_phase = "shut_down" /\ interrupted)
        => session_status \in {"completed", "failed"}

\* The signal arrived in the post-execution monitor and run has returned.
InterruptedWhileMonitoring ==
    /\ run_phase = "shut_down"
    /\ interrupted
    /\ ticks_since_interrupt["post_execution"] = 0
    /\ ticks_since_interrupt["execution"] = 0
    /\ merge_result = "merged"
    /\ session_status = "completed"

(***************************************************************************)
(* C24: a channel failure on one agent.                                    *)
(***************************************************************************)
\* initialize_agents reaches agent a and interface.start raises.
StartFails(a) == \E w \in BOOLEAN, g \in BOOLEAN : _create_agent(a, w, g, FALSE)

\* C24: a channel failure on one agent leaves the orchestration going with
\* the other agents: when the start of agent i fails during
\* initialize_agents, the agents i+1..N-1 are still created and started, so
\* a start failure of an agent that is not the last leaves initialize_agents
\* running.
StartFailureIsLocal ==
    [][\A a \in Agents :
          (StartFails(a) /\ a < NumAgents - 1)
              => manager_phase' = "initializing"]_vars

\* A send failure raises nothing: the agent goes to Error, no other agent's
\* status changes and the strategy goes on to the next agent.
SendFailureIsLocal ==
    [][\A a \in Agents :
          SendInitialPrompt(a, FALSE)
              => /\ agent_status'[a] = "error"
                 /\ \A b \in Agents \ {a} : agent_status'[b] = agent_status[b]
                 /\ prompts_sent' = a + 1
                 /\ manager_phase' = "monitoring"]_vars

\* The start of the first agent failed: initialize_agents is over and the
\* agents after it were never created.
StartFailureEndsInitialization ==
    /\ manager_phase = "failed"
    /\ \A a \in Agents : agent_status[a] = "none"

(***************************************************************************)
(* C25: track_agent_progress and the project status.                       *)
(***************************************************************************)
\* track_agent_progress runs for agent a.
TracksProgress(a) == \E c \in BOOLEAN : track_agent_progress(a, c)

\* The project tree of a holds a file, or its repository more than the
\* initial commit, at a call of track_agent_progress.
FoundContent(a) ==
    \/ project_files[a] # {}
    \/ track_agent_progress(a, TRUE)

\* C25: track_agent_progress moves an Initialized project to InProgress once
\* its tree holds a file or its repository more than the initial commit, not
\* before, and it leaves a Completed project Completed whatever it finds.
TrackProgressStatus ==
    [][\A a \in Agents :
          TracksProgress(a) =>
             /\ (project_status[a] = "initialized" /\ FoundContent(a))
                    => project_status'[a] = "in_progress"
             /\ (project_status[a] = "initialized" /\ ~FoundContent(a))
                    => project_status'[a] = "initialized"
             /\ project_status[a] = "completed"
                    => project_status'[a] = "completed"]_vars

\* One project was moved to InProgress and another, Completed and holding
\* files, is still Completed.
TrackProgressWitness ==
    \E a \in Agents, b \in Agents :
       /\ project_status[a] = "in_progress"
       /\ project_status[b] = "completed"
       /\ project_files[b] # {}

(***************************************************************************)
(* C26, C27: the conflict policies of _merge_with_files.                   *)
(***************************************************************************)
\* The projects a merge call reports as merged.
MergedByCall == SeqToSet(merge_results'.merged_projects)

\* dest_path.exists() when the merge reaches path p of project a: the file
\* was in final-project before the call, or a project merged earlier in the
\* call holds the path.
DestinationExists(a, p) ==
    \/ final_files[p] # NoFile
    \/ \E b \in MergedByCall : b < a /\ p \in project_files[b]

\* The merge results hold a conflict record for path p that names agent a.
ConflictRecordFor(a, p) ==
    \E i \in 1..Len(merge_results'.conflicts) :
       /\ merge_results'.conflicts[i].file = p
       /\ a \in SeqToSet(merge_results'.conflicts[i].agents)

\* C26: under the overwrite policy, when the destination path exists the
\* later agent's file is copied over it and a conflict record for the path
\* is still appended to the merge results.
OverwriteRecordsConflict ==
    [][(MergeCall /\ conflict_resolution = "overwrite") =>
        \A a \in MergedByCall : \A p \in project_files[a] :
           DestinationExists(a, p) => ConflictRecordFor(a, p)]_vars

\* Under the overwrite policy the file is copied over the destination: the
\* path ends with the content of the project or of one handled after it.
OverwriteCopiesOver ==
    [][(MergeCall /\ conflict_resolution = "overwrite") =>
        \A a \in MergedByCall : \A p \in project_files[a] :
           final_files'[p] \in
              { b \in CompletedProjects : b >= a /\ p \in project_files[b] }]_vars

\* Under the overwrite policy no conflict record is ever appended.
OverwriteRecordsNothing ==
    conflict_resolution = "overwrite" => merge_results.conflicts = <<>>

\* A merge under the overwrite policy replaced agent 0's file by agent 1's
\* and reported no conflict.
OverwroteWithoutRecord ==
    /\ conflict_resolution = "overwrite"
    /\ merge_results.merged_projects = <<0, 1>>
    /\ \E p \in Paths : p \in project_files[0] \cap project_files[1]
                        /\ final_files[p] = 1
    /\ merge_results.conflicts = <<>>

\* The completed projects that hold path p, and the first of them in agent
\* id order.
HoldersOf(p) == { a \in CompletedProjects : p \in project_files[a] }

FirstHolder(p) == SetMin(HoldersOf(p))

WithinGracePeriod ==
    /\ work_check.message_sent
    /\ work_check.second < ConfiguredGrace(message_grace_period)

\* C28: check_agent_working returns true if and only if the recent output
\* holds no completion pattern and either holds a working pattern or the
\* last message was sent within the grace period.
WorkingIffNoCompletion ==
    work_check.done =>
       (work_check.result <=>
           /\ ~work_check.output.completion
           /\ (work_check.output.working \/ WithinGracePeriod))

\* The completion check takes precedence: with a completion pattern the
\* result is false, working patterns and grace period notwithstanding.
CompletionTakesPrecedence ==
    (work_check.done /\ work_check.output.completion) => ~work_check.result

\* The result is true only without a completion pattern and with a working
\* pattern or within the grace period.
WorkingOnlyIf ==
    (work_check.done /\ work_check.result) =>
        /\ ~work_check.output.completion
        /\ (work_check.output.working \/ WithinGracePeriod)

\* A completion pattern, a working pattern and a running grace period at
\* once: not working.
CompletionOverridesWorking ==
    /\ work_check.done
    /\ work_check.output.completion
    /\ work_check.output.working
    /\ WithinGracePeriod
    /\ ~work_check.result

(***************************************************************************)
(* C29, C30: the completion detector and the agent record.                 *)
(***************************************************************************)
\* C29: when verification is enabled and a verification for the agent ran
\* less than the verification interval ago, calculate_completion_confidence
\* sends no message and takes as semantic-verification score the score that
\* verification produced.
CachedVerificationScore ==
    (detection.done /\ detection.recent) =>
        /\ detection.messages = 0
        /\ detection.score = detection.previous

\* A call within the interval sends no message, verifies nothing anew and
\* takes the neutral score, whatever the last verification produced.
RecentVerificationIsNeutral ==
    (detection.done /\ detection.recent) =>
        /\ detection.messages = 0
        /\ detector_agent.last_verification_time
              = detection.before_verification_time
        /\ detection.score = default_verification_score

\* The last verification produced 0.7 and a call within the interval takes
\* 0.5.
CachedScoreLost ==
    /\ detection.done
    /\ detection.recent
    /\ detection.previous = 70
    /\ detection.score = default_verification_score

\* C30: a call of calculate_completion_confidence leaves the agent's status,
\* error, recovery counter, current task number and task start time as they
\* were, and sends at most one message.
DetectorReadOnly ==
    detection.done =>
        /\ detector_agent.status = detection.before_status
        /\ detector_agent.error = detection.before_error
        /\ detector_agent.recovery_attempts = detection.before_recovery_attempts
        /\ detector_agent.current_task_number = detection.before_task_number
        /\ detector_agent.current_task_start_time
              = detection.before_task_start_time
        /\ detection.messages <= 1

\* The recovery counter and the task fields are left alone and at most one
\* message is sent; status and error change only with a verification
\* message, to Working when it is sent and to Error when the send fails.
DetectorKeepsTaskFields ==
    detection.done =>
        /\ detector_agent.recovery_attempts = detection.before_recovery_attempts
        /\ detector_agent.current_task_number = detection.before_task_number
        /\ detector_agent.current_task_start_time
              = detection.before_task_start_time
        /\ detection.messages <= 1
        /\ detection.messages = 1 => detector_agent.status = "working"
        /\ detector_agent.status # detection.before_status
              => detector_agent.status \in {"working", "error"}
        /\ detector_agent.error # detection.before_error
              => detector_agent.status = "error"

\* The verification message could not be sent: a Working agent is in Error.
DetectorSetsError ==
    /\ detection.done
    /\ detection.before_status = "working"
    /\ detection.before_error = ""
    /\ detector_agent.status = "error"
    /\ detector_agent.error = "send failed"

\* The verification message was sent to a Stopped agent: it is Working.
DetectorRevivesStopped ==
    /\ detection.done
    /\ detection.before_status = "stopped"
    /\ detection.messages = 1
    /\ detector_agent.status = "working"

(***************************************************************************)
(* C31: verification messages under the two loops.                         *)
(***************************************************************************)
\* C31: at most one verification message is sent to the agent within any
\* window of completion_verification_interval seconds, however the agent
\* manager's monitor and the strategy's loop interleave.
OneVerificationPerInterval ==
    \A i, j \in 1..Len(verification_messages) :
       i < j => verification_messages[j].time - verification_messages[i].time
                   >= completion_verification_interval

\* Two messages of one caller are more than the interval apart.
OneVerificationPerIntervalAndCaller ==
    \A i, j \in 1..Len(verification_messages) :
       (i < j /\ verification_messages[i].caller
                    = verification_messages[j].caller)
          => verification_messages[j].time - verification_messages[i].time
                > completion_verification_interval

\* The strategy's loop sent a verification message while the monitor was in
\* its response wait, 10 seconds after the monitor's message.
SecondVerificationDuringWait ==
    /\ Len(verification_messages) >= 2
    /\ verification_messages[1].caller = "monitor"
    /\ verification_messages[2].caller = "strategy"
    /\ verification_messages[2].time - verification_messages[1].time = 10

(***************************************************************************)
(* C32: the monitor after spawn_finalization_agent.                        *)
(***************************************************************************)
\* The positions in self.agents of the regular agents.
RegularAgents == 1..NumAgents

\* C32: once spawn_finalization_agent has been called, the agent manager's
\* monitor neither takes up a regular agent (id below N) nor changes the
\* status of one; it monitors the finalization agent, whose id is N, only.
MonitorLeavesRegularAgents ==
    [][stop_regular_monitoring =>
          /\ \A i \in RegularAgents :
                manager_agents'[i].status = manager_agents[i].status
          /\ monitoring_agent' # monitoring_agent
                => monitoring_agent' \notin RegularAgents]_vars

\* After the spawn no iteration begins for a regular agent, and the
\* finalization agent is at the end of self.agents with id N.
NoIterationBeginsAfterSpawn ==
    [][stop_regular_monitoring =>
          /\ monitoring_agent' # monitoring_agent
                => monitoring_agent' \notin RegularAgents
          /\ Len(manager_agents) = NumAgents + 1
          /\ manager_agents[NumAgents + 1].id = NumAgents
          /\ max_agent_id = NumAgents]_vars

\* An iteration for regular agent 0 that was suspended when the
\* finalization agent was spawned has set the agent to Completed.
SuspendedIterationWroteStatus ==
    /\ stop_regular_monitoring
    /\ monitoring_agent = NoIteration
    /\ Len(manager_agents) = NumAgents + 1
    /\ manager_agents[1].status = "completed"
    /\ \A i \in 2..NumAgents : manager_agents[i].status = "stopped"

(***************************************************************************)
(* C33: minimum work duration.                                             *)
(***************************************************************************)
\* C33: no project is Completed before minimum_work_duration_minutes have
\* passed since the strategy stamped the agent's start time, whichever loop
\* marks it.
CompletedAfterMinimumWork ==
    duration_project_status = "completed"
        => completed_at - agent_start_times
              >= 60 * minimum_work_duration_minutes

\* The strategy's loop itself completes a project only after the minimum.
StrategyCompletesAfterMinimumWork ==
    [][(\E f \in BOOLEAN, r \in BOOLEAN : StrategyTick(f, r))
          /\ duration_project_status # "completed"
          /\ duration_project_status' = "completed"
       => duration_clock - agent_start_times
             >= 60 * minimum_work_duration_minutes]_vars

\* The agent manager's monitor has completed the project five minutes
\* after the stamp.
MonitorCompletedAtFiveMinutes ==
    /\ duration_project_status = "completed"
    /\ duration_agent_status = "completed"
    /\ agent_start_times = 0
    /\ completed_at = task_minimum_duration

\* The strategy has completed the project of an agent that is still Working.
StrategyCompletedProject ==
    /\ duration_project_status = "completed"
    /\ duration_agent_status = "working"
    /\ completed_at - agent_start_times = 60 * minimum_work_duration_minutes

(***************************************************************************)
(* C34: the merges of the post-execution monitor.                          *)
(***************************************************************************)
\* C34: the post-execution monitor calls merge_agent_projects only at a
\* tick that finds at least one Completed project and no Merged one, and
\* at most once in a session.
MonitorMergesOnce ==
    [][merge_calls' # merge_calls
          => /\ completed_projects >= 1
             /\ merged_projects = 0
             /\ merge_calls = 0]_vars

\* Each merge of the monitor is at a tick with a Completed project and no
\* Merged one, with every project Completed or a manual request pending.
MonitorMergesCompletedUnmerged ==
    [][merge_calls' # merge_calls
          => /\ completed_projects >= 1
             /\ merged_projects = 0
             /\ \/ completed_projects = total_projects
                \/ merge_trigger_file
                \/ force_merge]_vars

\* The monitor has merged twice in one session: the first merge failed or
\* its Merged projects were tracked back to InProgress and completed again.
MonitorMergedAgain ==
    /\ merge_calls = 2
    /\ merge_summary.writes = 2
    /\ \A a \in Agents : project_status[a] = "merged"
    /\ Len(merge_results.failed_projects) = 0

(***************************************************************************)
(* C35: when the monitor runs the error recovery.                          *)
(***************************************************************************)
\* C35: a pass of the monitor over a monitored, running agent whose recent
\* output holds an error pattern and no working pattern runs the error
\* recovery at that pass, whatever the completion confidence and the
\* elapsed task time; and no other pass runs it.
RecoveryAtEveryErrorPattern ==
    [][\A inp \in MonitorInputs, has_project \in BOOLEAN :
          MonitorPass(inp, has_project)
             => /\ inp.running /\ inp.error_pattern /\ ~inp.is_working
                      => call_fresh'
                /\ call_fresh' => inp.running /\ inp.error_pattern]_vars

\* The recovery is run only for a running Working agent with an error
\* pattern whose completion check was due and found completion likely.
RecoveryOnlyAfterLikelyCompletion ==
    [][\A inp \in MonitorInputs, has_project \in BOOLEAN :
          MonitorPass(inp, has_project) /\ call_fresh'
             => /\ inp.running /\ inp.error_pattern
                /\ inp.check_due /\ inp.completion_likely
                /\ rec_agent.status = "working" /\ rec_agent.timed]_vars

\* A recovery has been run for the agent and left it in ERROR.
RecoveryHasRun ==
    /\ call_fresh
    /\ rec_call.attempt = 1
    /\ rec_agent.status = "error"

(***************************************************************************)
(* C36: the order of the project statuses.                                 *)
(***************************************************************************)
\* Initialized -> InProgress -> Completed -> Merged, as positions.
ProjectStatusRank(status) ==
    CASE status = "no_project" -> 0
      [] status = "initialized" -> 1
      [] status = "in_progress" -> 2
      [] status = "completed" -> 3
      [] status = "merged" -> 4
      [] OTHER -> 5

\* C36: over every sequence of track_agent_progress, complete_agent_project
\* and merge_agent_projects calls a project's status only moves forward
\* along Initialized -> InProgress -> Completed -> Merged; a Merged project
\* stays Merged and get_session_status never reports fewer merged projects
\* than before.
ProjectStatusMovesForward ==
    [][/\ \A a \in Agents :
            ProjectStatusRank(project_status'[a])
               >= ProjectStatusRank(project_status[a])
       /\ Cardinality({a \in Agents : project_status'[a] = "merged"})
             >= merged_projects]_vars

\* Up to Completed the order is kept: a project that is not Merged never
\* moves back.
UnmergedStatusMovesForward ==
    [][\A a \in Agents :
          project_status[a] # "merged"
             => ProjectStatusRank(project_status'[a])
                   >= ProjectStatusRank(project_status[a])]_vars

\* A project that merge_agent_projects marked Merged is InProgress again.
MergedProjectInProgressAgain ==
    /\ merge_calls = 1
    /\ \E a \in Agents :
          /\ a \in SeqToSet(merge_results.merged_projects)
          /\ project_status[a] = "in_progress"

(***************************************************************************)
(* C37: the agent's record and its project's record.                       *)
(***************************************************************************)
\* C37: in every reachable state an agent whose project is Completed or
\* Merged is not Starting or Working, and an agent that is Completed has a
\* project that is Completed or Merged.
AgentAndProjectAgree ==
    \A a \in Agents :
        /\ project_status[a] \in {"completed", "merged"}
              => agent_status[a] \notin {"starting", "working"}
        /\ agent_status[a] = "completed"
              => project_status[a] \in {"completed", "merged"}

\* The half that the monitor's own completion keeps: the agent is set to
\* COMPLETED only after complete_agent_project returned.
CompletedAgentHasCompletedProject ==
    \A a \in Agents :
        agent_status[a] = "completed"
           => project_status[a] \in {"completed", "merged"}

\* The strategy completed every project and ended in success while an
\* agent is still Working.
ProjectCompletedAgentWorking ==
    /\ strategy_phase = "succeeded"
    /\ \A a \in Agents : project_status[a] = "completed"
    /\ \E a \in Agents : agent_status[a] = "working"
    /\ \E a \in Agents : agent_status[a] = "completed"

(***************************************************************************)
(* C38: the current task after the initial prompts.                        *)
(***************************************************************************)
\* C38: _send_initial_prompts leaves every agent that has tasks with
\* current_task_number at the number of the first task of its assignment,
\* the one the message tells it to begin with, and every agent without
\* tasks with no current task.
InitialPromptStartsFirstTask ==
    [][prompt_cursor' = prompt_cursor + 1
          => LET a == prompt_cursor
                 tasks == task_assignments[a]
             IN current_task_number'[a] =
                   IF tasks = <<>> THEN 0 ELSE tasks[1]]_vars

\* What the code leaves: the number of the last task of the assignment.
InitialPromptStartsLastTask ==
    [][prompt_cursor' = prompt_cursor + 1
          => LET a == prompt_cursor
                 tasks == task_assignments[a]
             IN current_task_number'[a] =
                   IF tasks = <<>> THEN 0 ELSE tasks[Len(tasks)]]_vars

\* Every prompt is out; agent 0 was told to begin with task 1 and its
\* current task is the last of its list.
CurrentTaskIsNotFirst ==
    /\ prompt_cursor = task_agents
    /\ task_assignments[0][1] = 1
    /\ Len(task_assignments[0]) = 2
    /\ current_task_number[0] = task_assignments[0][2]
    /\ current_task_number[0] > 1

CompletedEventuallyMerged ==
    \A a \in Agents :
        (project_status[a] = "completed")
           ~> (project_status[a] = "merged" \/ merge_calls = MaxMerges)

\* When every project is Completed and none is Merged, a later tick merges.
AllCompletedEventuallyMerged ==
    (/\ \A a \in Agents : project_status[a] = "completed"
     /\ merge_calls < MaxMerges)
       ~> (\A a \in Agents : project_status[a] = "merged")

\* A project completed after the manual merge of the other one.
CompletedAfterManualMerge ==
    /\ merge_reason = "manual"
    /\ merge_calls = 1
    /\ project_status[0] = "merged"
    /\ project_status[1] = "completed"
    /\ ~force_merge /\ ~merge_trigger_file

(***************************************************************************)
(* C40: update_json_file under FileLock.                                   *)
(***************************************************************************)
\* The callers between a successful acquire and their release.
LockHolders == { c \in LockCallers : lock_pc[c] \in {"locked", "read", "written"} }

\* How often caller c's updater is in the file's content.
TimesApplied(c) ==
    Cardinality({ i \in 1..Len(json_file) : json_file[i] = c })

\* C40: concurrent update_json_file calls on one path are serialized by
\* FileLock: never two callers hold the lock, and once every call has
\* returned the file is the result of applying every caller's updater
\* exactly once in some order; no update is lost.
UpdatesAreSerialized ==
    /\ Cardinality(LockHolders) <= 1
    /\ LockHolders # {} => lock_exists
    /\ \A c \in LockCallers :
          /\ lock_pc[c] \in {"written", "returned"} => TimesApplied(c) = 1
          /\ lock_pc[c] \notin {"written", "returned"} => TimesApplied(c) = 0
    /\ (\A c \in LockCallers : lock_pc[c] = "returned")
          => Len(json_file) = Cardinality(LockCallers)

\* Every call has returned, and the last caller to get the lock had to
\* wait for it.
AllUpdatesReturned ==
    /\ \A c \in LockCallers : lock_pc[c] = "returned"
    /\ Len(json_file) = Cardinality(LockCallers)
    /\ \E c \in LockCallers : lock_attempts[c] > 1

====
